---- MODULE Spec2Model ----
(***************************************************************************)
(* Model of the aggregation, scoring and reporting pipeline of the         *)
(* CRSET personal stack (FinanceFlow):                                     *)
(*   - the chunked fetcher getFinancePortfolio (AlphaVantage),             *)
(*   - the two-provider aggregators getCMCMarketOverview (CoinMarketCap)   *)
(*     and getCryptoSummary (CoinGecko),                                   *)
(*   - the filter / rank engines getBusinessOpportunities and              *)
(*     getDomainOpportunities with their route handlers,                   *)
(*   - the alert engine generateMarketAlerts,                              *)
(*   - the Markdown renderer generateMarkdownReport,                       *)
(*   - the GET handlers of the eight routes.                               *)
(*                                                                         *)
(* Numbers are integers.  Where the source holds decimals the model holds  *)
(* the value in a fixed sub-unit, named at the definition (scores in       *)
(* tenths, roi scores and percentages in hundredths, prices in cents).     *)
(***************************************************************************)
EXTENDS Integers, Sequences, FiniteSets, TLC

VARIABLES
    \* ---- getFinancePortfolio (chunked fetcher) ----
    fp_pc,        \* "idle" | "awaiting" | "delay" | "done" | "thrown"
    symbols,      \* the input list of symbols
    chunks,       \* `chunks`: the input cut into groups
    chunkIdx,     \* 1-based position of the loop's current chunk (0: none)
    promises,     \* `promises` of the current chunk, one promise per symbol
    stocks,       \* `stocks`: the quotes pushed so far
    errlog,       \* the console.error lines "Failed to fetch <symbol>: <reason>"
    fp_currency,  \* the `currency` argument
    settled,      \* history: the allSettled results of every chunk so far, by input position
    fp_result,    \* the value getFinancePortfolio resolved with (or the error)
    requested,    \* history: the symbols getStockQuote was called with, in call order
    delays,       \* history: the number of setTimeout(resolve, 1000) delays started
    overtaken,    \* history: a request settled while an earlier one of its chunk was pending
    \* ---- aggregators (getCMCMarketOverview, getCryptoSummary) ----
    CMC_API_KEY,  \* whether process.env.COINMARKETCAP_API_KEY is set
    agg_pc,       \* "idle" | "awaiting" | "returned" | "failed"
    agg_fn,       \* which aggregator runs: "cmc" | "coingecko" | "none"
    agg_limit,    \* its `limit` argument
    agg_currency, \* its `currency` argument
    sub,          \* the two sub-call promises: [listings |-> p, global |-> p]
    settleOrder,  \* the sub-calls in the order they settled
    fetches,      \* number of network requests issued by the sub-calls
    agg_result,   \* the snapshot the aggregator resolved with
    agg_thrown,   \* the errors the aggregator threw to its caller, in order
    \* ---- filter / rank engine (business tracker, domain opportunities) ----
    eng_pc,       \* "idle" | "business" | "domains" | "rank"
    eng_query,    \* the parsed arguments of the last engine call
    eng_result,   \* the report of the last engine call
    \* ---- alert engine (generateMarketAlerts) ----
    al_pc,        \* "idle" | "done"
    al_input,     \* the `marketData` argument of the last call
    al_result,    \* the value the last call resolved with
    al_given,     \* history: the snapshot as it was when the last call was made
    al_kept,      \* history: one earlier evaluation, [given, result]
    \* ---- report renderer (generateMarkdownReport) ----
    rp_pc,        \* "idle" | "rendered" | "threw"
    rp_input,     \* the `data` argument of the last call
    rp_result,    \* the document returned, or the error thrown
    \* ---- route handlers (GET of the eight routes) ----
    rt_pc,        \* "idle" | "awaiting" | "responded"
    rt_request,   \* the request being served: route, format, request id
    rt_stage,     \* 1-based position of the `await` the handler is suspended at
    rt_values,    \* the values its collaborators resolved with so far
    rt_response,  \* the response the handler returned
    rt_calls,     \* history: the collaborators the handler called, in call order
    \* ---- dashboard (DashboardV2: useEffect, fetchData) ----
    db_phase,     \* "initial" | "mounted" | "unmounted"
    refreshes,    \* the fetchData calls so far, in start order: where each one stands
    db_marketData,   \* state `marketData`: null, or the data and the refresh that set it
    db_tradingData,  \* state `tradingData`: null, or the data and the refresh that set it
    db_loading,      \* state `loading`
    db_error         \* state `error`: null, or the message and the refresh that set it

vars == <<fp_pc, symbols, chunks, chunkIdx, promises, stocks, errlog, fp_currency,
          settled, fp_result, requested, delays, overtaken,
          CMC_API_KEY, agg_pc, agg_fn, agg_limit, agg_currency, sub, settleOrder,
          fetches, agg_result, agg_thrown,
          eng_pc, eng_query, eng_result,
          al_pc, al_input, al_result, al_given, al_kept,
          rp_pc, rp_input, rp_result,
          rt_pc, rt_request, rt_stage, rt_values, rt_response, rt_calls,
          db_phase, refreshes, db_marketData, db_tradingData, db_loading, db_error>>

fpVars == <<fp_pc, symbols, chunks, chunkIdx, promises, stocks, errlog, fp_currency,
            settled, fp_result, requested, delays, overtaken>>
aggVars == <<CMC_API_KEY, agg_pc, agg_fn, agg_limit, agg_currency, sub, settleOrder,
             fetches, agg_result, agg_thrown>>
engVars == <<eng_pc, eng_query, eng_result>>
alVars == <<al_pc, al_input, al_result, al_given, al_kept>>
rpVars == <<rp_pc, rp_input, rp_result>>
rtVars == <<rt_pc, rt_request, rt_stage, rt_values, rt_response, rt_calls>>
dbVars == <<db_phase, refreshes, db_marketData, db_tradingData, db_loading, db_error>>

(***************************************************************************)
(* Generic helpers: JavaScript array operations used by the source.        *)
(***************************************************************************)

\* Array.prototype.slice(start, end) on a 0-based array held as a 1-based
\* sequence: negative indices count from the end, both are clamped.
Clamp(i, n) == IF i < 0 THEN (IF n + i < 0 THEN 0 ELSE n + i)
               ELSE (IF i > n THEN n ELSE i)

Slice(arr, start, end) ==
    LET n == Len(arr)
        s == Clamp(start, n)
        e == Clamp(end, n)
    IN  IF s >= e THEN <<>> ELSE SubSeq(arr, s + 1, e)

\* a sum that starts from 1 instead of 0
RECURSIVE SumSeq_FromOne(_)
SumSeq_FromOne(nums) ==
    IF nums = <<>> THEN 1 ELSE Head(nums) + SumSeq_FromOne(Tail(nums))

\* Array.prototype.reduce((sum, x) => sum + x, 0) over a list of numbers
RECURSIVE SumSeq(_)
SumSeq(nums) ==
    IF nums = <<>> THEN 0 ELSE Head(nums) + SumSeq(Tail(nums))

\* number of positions of arr holding x
Count(arr, x) == Cardinality({i \in 1..Len(arr) : arr[i] = x})

(***************************************************************************)
(* Promises.                                                               *)
(***************************************************************************)
Pending == [status |-> "pending"]
Fulfilled(v) == [status |-> "fulfilled", value |-> v]
Rejected(e) == [status |-> "rejected", reason |-> e]

(***************************************************************************)
(* AlphaVantage: getStockQuote and getFinancePortfolio.                    *)
(***************************************************************************)

\* the largest number of input symbols explored
MaxSymbols == 7

\* `i += 5`, `symbols.slice(i, i + 5)`
ChunkSize == 5

\* the symbols requests are drawn from; an input list of n symbols is the
\* first n of the pool taken cyclically, so the 7th repeats the 1st
SymbolPool == <<"AAPL", "GOOGL", "MSFT", "AMZN", "TSLA", "NVDA">>

SymbolList(n) == [i \in 1..n |-> SymbolPool[((i - 1) % Len(SymbolPool)) + 1]]

FPCurrencies == {"usd", "eur"}

\* the provider's current price of a symbol, in cents ("05. price")
AVPrice(symbol) ==
    CASE symbol = "AAPL"  -> 22750
      [] symbol = "GOOGL" -> 16510
      [] symbol = "MSFT"  -> 41520
      [] symbol = "AMZN"  -> 18640
      [] symbol = "TSLA"  -> 24890
      [] OTHER            -> 13270

\* what the AlphaVantage endpoint may answer to GLOBAL_QUOTE for a symbol
AVResponses(symbol) ==
    { [kind |-> "http_error", status |-> 500],
      [kind |-> "error_message"],
      [kind |-> "empty_quote"],
      [kind |-> "quote", symbol |-> symbol, price |-> AVPrice(symbol)] }

\* getStockQuote: the state its promise settles in, given the response
getStockQuote(symbol, resp) ==
    IF resp.kind = "http_error"
    THEN Rejected([message |-> "AlphaVantage API error", status |-> resp.status])
    ELSE IF resp.kind = "error_message"
    THEN Rejected([message |-> "AlphaVantage: Error Message"])
    ELSE IF resp.kind = "empty_quote"
    THEN Rejected([message |-> "No data found for symbol", symbol |-> symbol])
    ELSE Fulfilled([symbol |-> resp.symbol, price |-> resp.price])

\* the chunking loop: for (i = 0; i < symbols.length; i += 5) chunks.push(slice)
RECURSIVE ChunksFrom(_, _)
ChunksFrom(syms, i) ==
    IF i < Len(syms)
    THEN <<Slice(syms, i, i + ChunkSize)>> \o ChunksFrom(syms, i + ChunkSize)
    ELSE <<>>

\* no chunking: every symbol in one group
MakeChunks_Whole(syms) == IF syms = <<>> THEN <<>> ELSE <<syms>>

MakeChunks(syms) == ChunksFrom(syms, 0)

\* chunk.map(symbol => getStockQuote(symbol, apiKey)): one request per symbol
IssueChunk(chunk) == [i \in 1..Len(chunk) |-> Pending]

IsFulfilled(p) == p.status = "fulfilled"

\* a stocks list that forgets the earlier chunks (an accumulator declared
\* inside the loop)
PushFulfilled_PerChunk(st, results) ==
    LET ok == SelectSeq(results, IsFulfilled)
    IN  [i \in 1..Len(ok) |-> ok[i].value]

\* results.forEach: stocks.unshift(result.value), newest quote first
PushFulfilled_Unshift(st, results) ==
    LET ok == SelectSeq(results, IsFulfilled)
    IN  [i \in 1..Len(ok) |-> ok[Len(ok) + 1 - i].value] \o st

\* results.forEach: stocks.push(result.value) for each fulfilled result
PushFulfilled(st, results) ==
    LET ok == SelectSeq(results, IsFulfilled)
    IN  st \o [i \in 1..Len(ok) |-> ok[i].value]

\* a log that names the chunk's first symbol for every failure
LogRejected_FirstSymbol(log, chunk, results) ==
    LET idx == SelectSeq([i \in 1..Len(results) |-> i],
                         LAMBDA i : results[i].status = "rejected")
    IN  log \o [k \in 1..Len(idx) |->
                  [symbol |-> chunk[1], reason |-> results[idx[k]].reason]]

\* results.forEach: console.error(`Failed to fetch ${chunk[index]}:`, reason)
\* for each rejected result
LogRejected(log, chunk, results) ==
    LET idx == SelectSeq([i \in 1..Len(results) |-> i],
                         LAMBDA i : results[i].status = "rejected")
    IN  log \o [k \in 1..Len(idx) |->
                  [symbol |-> chunk[idx[k]], reason |-> results[idx[k]].reason]]

\* a 1-based position taken for the 0-based one
IndexOfChunk_OneBased(idx) == idx

\* chunks.indexOf(chunk): the chunks are distinct array objects and indexOf
\* compares by identity, so it is the 0-based position of the loop's chunk
IndexOfChunk(idx) == idx - 1

\* the error an exception e is rethrown as by the catch block
PortfolioError(e) ==
    [threw |-> TRUE, message |-> "Failed to fetch finance portfolio", cause |-> e]

\* a total computed by reduce without an initial value: a TypeError on the
\* empty array
PortfolioResult_NoInitialValue(st, currency) ==
    IF st = <<>>
    THEN PortfolioError("TypeError: Reduce of empty array with no initial value")
    ELSE [ok |-> TRUE, currency |-> currency,
          total_value |-> SumSeq([i \in 1..Len(st) |-> st[i].price * 1]),
          stocks |-> st,
          meta |-> [source |-> "AlphaVantage API", count |-> Len(st)]]

\* the returned object (the timestamp, a clock reading, is left out)
PortfolioResult(st, currency) ==
    [ok |-> TRUE, currency |-> currency,
     total_value |-> SumSeq([i \in 1..Len(st) |-> st[i].price * 1]),
     stocks |-> st,
     meta |-> [source |-> "AlphaVantage API", count |-> Len(st)]]

Threw(r) == "threw" \in DOMAIN r

\* getFinancePortfolio up to its first await: build the chunks, issue chunk 1;
\* with no symbols the loop body never runs and the result is returned at once
getFinancePortfolio_Call(n, currency) ==
    /\ fp_pc = "idle"
    /\ symbols' = SymbolList(n)
    /\ fp_currency' = currency
    /\ chunks' = MakeChunks(symbols')
    /\ stocks' = <<>>
    /\ UNCHANGED <<errlog, settled, delays, overtaken>>
    /\ IF chunks' = <<>>
       THEN /\ chunkIdx' = 0
            /\ promises' = <<>>
            /\ requested' = requested
            /\ fp_result' = PortfolioResult(stocks', currency)
            /\ fp_pc' = IF Threw(fp_result') THEN "thrown" ELSE "done"
       ELSE /\ chunkIdx' = 1
            /\ promises' = IssueChunk(chunks'[1])
            /\ requested' = requested \o chunks'[1]
            /\ fp_pc' = "awaiting"
            /\ UNCHANGED fp_result

\* one request of the current chunk gets its response and its promise settles
getStockQuote_Settle(i) ==
    /\ fp_pc = "awaiting"
    /\ i \in 1..Len(promises)
    /\ promises[i] = Pending
    /\ \E resp \in AVResponses(chunks[chunkIdx][i]) :
         promises' = [promises EXCEPT ![i] = getStockQuote(chunks[chunkIdx][i], resp)]
    /\ overtaken' = (overtaken \/ \E j \in 1..(i - 1) : promises[j] = Pending)
    /\ UNCHANGED <<fp_pc, symbols, chunks, chunkIdx, stocks, errlog, fp_currency,
                   settled, fp_result, requested, delays>>

\* a combinator that resolves as soon as one promise rejected (Promise.all)
AllSettledResolves_OnRejection(ps) ==
    \/ \A i \in 1..Len(ps) : ps[i] # Pending
    \/ \E i \in 1..Len(ps) : ps[i].status = "rejected"

\* Promise.allSettled(promises) resolves when no promise is pending
AllSettledResolves(ps) == \A i \in 1..Len(ps) : ps[i] # Pending

\* Promise.allSettled resolves: collect the results, then either start the
\* inter-chunk delay or build the result
getFinancePortfolio_AllSettled ==
    /\ fp_pc = "awaiting"
    /\ AllSettledResolves(promises)
    /\ stocks' = PushFulfilled(stocks, promises)
    /\ errlog' = LogRejected(errlog, chunks[chunkIdx], promises)
    /\ settled' = settled \o promises
    /\ IF IndexOfChunk(chunkIdx) < Len(chunks) - 1
       THEN /\ fp_pc' = "delay"
            /\ delays' = delays + 1
            /\ UNCHANGED fp_result
       ELSE /\ fp_result' = PortfolioResult(stocks', fp_currency)
            /\ fp_pc' = IF Threw(fp_result') THEN "thrown" ELSE "done"
            /\ delays' = delays
    /\ UNCHANGED <<symbols, chunks, chunkIdx, promises, fp_currency, requested,
                   overtaken>>

\* the setTimeout of 1000 ms fires: the loop moves to the next chunk and
\* issues its requests
getFinancePortfolio_DelayElapsed ==
    /\ fp_pc = "delay"
    /\ chunkIdx' = chunkIdx + 1
    /\ promises' = IssueChunk(chunks[chunkIdx + 1])
    /\ requested' = requested \o chunks[chunkIdx + 1]
    /\ fp_pc' = "awaiting"
    /\ UNCHANGED <<symbols, chunks, stocks, errlog, fp_currency, settled, fp_result,
                   delays, overtaken>>

FPNext ==
    \/ \E n \in 0..MaxSymbols, c \in FPCurrencies : getFinancePortfolio_Call(n, c)
    \/ \E i \in 1..Len(promises) : getStockQuote_Settle(i)
    \/ getFinancePortfolio_AllSettled
    \/ getFinancePortfolio_DelayElapsed

(***************************************************************************)
(* Aggregators: getCMCMarketOverview (CoinMarketCap) and getCryptoSummary  *)
(* (CoinGecko).  Each runs a listings sub-call and a global-metrics        *)
(* sub-call under Promise.all.                                             *)
(*                                                                         *)
(* A monetary figure is held as [amount, cur]: the number the code handles *)
(* and the currency the provider (or the mock) quoted it in.  The code     *)
(* copies figures; it never reads or changes `cur`.                        *)
(***************************************************************************)

\* the largest `limit` explored
MaxLimit == 3

Money(a, c) == [amount |-> a, cur |-> c]

SubCalls == {"listings", "global"}

OtherSub(which) == IF which = "listings" THEN "global" ELSE "listings"

\* the currency codes a route passes on: /api/crypto/market upper-cases the
\* query parameter, /api/crypto/summary passes it as given (default "usd")
AggCurrencies(fn) == IF fn = "cmc" THEN {"USD", "EUR"} ELSE {"usd", "eur"}

\* upstream HTTP statuses of a failed response
ErrorStatuses == {429, 500}

\* getMockCMCData: the two mock listings (fields read by the overview;
\* price in cents, market cap and volume in 10^3 USD, changes in 1/100 %),
\* cut by mockData.slice(0, limit)
getMockCMCData(limit) ==
    Slice(<< [cmc_rank |-> 1, name |-> "Bitcoin", symbol |-> "BTC",
              quote |-> [c \in {"USD"} |->
                  [price |-> Money(10955423, "USD"),
                   volume_24h |-> Money(35000000, "USD"),
                   percent_change_24h |-> 157,
                   percent_change_7d |-> 345,
                   market_cap |-> Money(2136307485, "USD")]]],
             [cmc_rank |-> 2, name |-> "Ethereum", symbol |-> "ETH",
              quote |-> [c \in {"USD"} |->
                  [price |-> Money(385823, "USD"),
                   volume_24h |-> Money(18000000, "USD"),
                   percent_change_24h |-> 234,
                   percent_change_7d |-> 567,
                   market_cap |-> Money(462987600, "USD")]]] >>,
          0, limit)

\* getMockGlobalMetrics (fields read by the overview; totals in 10^6 USD,
\* dominances in 1/10 %)
getMockGlobalMetrics ==
    [total_market_cap |-> Money(3800000, "USD"),
     total_volume_24h |-> Money(125000, "USD"),
     btc_dominance |-> 565, eth_dominance |-> 182,
     active_cryptocurrencies |-> 10500, active_exchanges |-> 750]

\* what the live CoinMarketCap listings endpoint returns for convert=currency:
\* its ranking, each entry quoted under the requested currency code
CMCLiveListings(limit, currency) ==
    Slice(<< [cmc_rank |-> 1, name |-> "Bitcoin", symbol |-> "BTC",
              quote |-> [c \in {currency} |->
                  [price |-> Money(10100000, currency),
                   volume_24h |-> Money(33000000, currency),
                   percent_change_24h |-> 1600,
                   percent_change_7d |-> -250,
                   market_cap |-> Money(2000000000, currency)]]],
             [cmc_rank |-> 2, name |-> "Ethereum", symbol |-> "ETH",
              quote |-> [c \in {currency} |->
                  [price |-> Money(350000, currency),
                   volume_24h |-> Money(17000000, currency),
                   percent_change_24h |-> -1200,
                   percent_change_7d |-> 410,
                   market_cap |-> Money(420000000, currency)]]],
             [cmc_rank |-> 3, name |-> "Solana", symbol |-> "SOL",
              quote |-> [c \in {currency} |->
                  [price |-> Money(18000, currency),
                   volume_24h |-> Money(4000000, currency),
                   percent_change_24h |-> 300,
                   percent_change_7d |-> 900,
                   market_cap |-> Money(85000000, currency)]]] >>,
          0, limit)

CMCLiveGlobal(currency) ==
    [total_market_cap |-> Money(3500000, currency),
     total_volume_24h |-> Money(110000, currency),
     btc_dominance |-> 480, eth_dominance |-> 175,
     active_cryptocurrencies |-> 10400, active_exchanges |-> 740]

\* the error thrown by getCMCTopCryptos on !response.ok:
\* `CoinMarketCap API error: ${status} ${statusText}`
CMCListingsError(status) == [message |-> "CoinMarketCap API error", status |-> status]

\* the error thrown by getCMCGlobalMetrics on !response.ok: the same text
CMCGlobalError(status) == [message |-> "CoinMarketCap API error", status |-> status]

\* the error thrown by getTopCoins and by getGlobalMarketData on !response.ok:
\* `CoinGecko API error: ${status} ${statusText}`
CoinGeckoError(status) == [message |-> "CoinGecko API error", status |-> status]

\* the error a sub-call of aggregator fn throws for an upstream status
SubCallError(fn, which, status) ==
    IF fn = "cmc"
    THEN (IF which = "listings" THEN CMCListingsError(status) ELSE CMCGlobalError(status))
    ELSE CoinGeckoError(status)

\* what the live CoinGecko /coins/markets endpoint returns for vs_currency
\* (price in cents, market cap and volume in 10^3 of the currency)
GeckoLiveCoins(limit, currency) ==
    Slice(<< [id |-> "bitcoin", symbol |-> "btc", name |-> "Bitcoin",
              current_price |-> Money(10100000, currency),
              market_cap |-> Money(2000000000, currency),
              total_volume |-> Money(33000000, currency),
              market_cap_rank |-> 1,
              price_change_percentage_24h |-> 1600],
             [id |-> "ethereum", symbol |-> "eth", name |-> "Ethereum",
              current_price |-> Money(350000, currency),
              market_cap |-> Money(420000000, currency),
              total_volume |-> Money(17000000, currency),
              market_cap_rank |-> 2,
              price_change_percentage_24h |-> -1200],
             [id |-> "solana", symbol |-> "sol", name |-> "Solana",
              current_price |-> Money(18000, currency),
              market_cap |-> Money(85000000, currency),
              total_volume |-> Money(4000000, currency),
              market_cap_rank |-> 3,
              price_change_percentage_24h |-> 300] >>,
          0, limit)

\* the bodies the live CoinGecko /global endpoint may return: data.total_market_cap
\* and data.total_volume map currency codes to totals (10^6 of the currency)
GeckoGlobalBodies ==
    { [total_market_cap |-> [c \in {"usd", "eur"} |->
                               IF c = "usd" THEN Money(3500000, "usd")
                                            ELSE Money(3200000, "eur")],
       total_volume |-> [c \in {"usd", "eur"} |->
                               IF c = "usd" THEN Money(110000, "usd")
                                            ELSE Money(100000, "eur")]],
      [total_market_cap |-> [c \in {"eur"} |-> Money(3200000, "eur")],
       total_volume |-> [c \in {"eur"} |-> Money(100000, "eur")]] }

\* `x.usd || 0`: the usd entry, or the literal 0 (which has no currency)
UsdOrZero(byCurrency) ==
    IF "usd" \in DOMAIN byCurrency /\ byCurrency["usd"].amount # 0
    THEN byCurrency["usd"]
    ELSE Money(0, "none")

\* getGlobalMarketData's return value for a response body
getGlobalMarketData(body) ==
    [total_market_cap |-> UsdOrZero(body.total_market_cap),
     total_volume |-> UsdOrZero(body.total_volume)]

\* the responses a live sub-call may get
SubResponses(fn, which, limit, currency) ==
    {[kind |-> "http_error", status |-> st] : st \in ErrorStatuses}
    \cup
    (IF fn = "cmc"
     THEN {[kind |-> "ok",
            data |-> IF which = "listings" THEN CMCLiveListings(limit, currency)
                                           ELSE CMCLiveGlobal(currency)]}
     ELSE IF which = "listings"
     THEN {[kind |-> "ok", data |-> GeckoLiveCoins(limit, currency)]}
     ELSE {[kind |-> "ok", data |-> b] : b \in GeckoGlobalBodies})

\* getCMCTopCryptos / getCMCGlobalMetrics / getTopCoins / getGlobalMarketData
\* after the fetch: throw on !response.ok, else return the (reshaped) body
SubCallSettle(fn, which, resp) ==
    IF resp.kind = "http_error"
    THEN Rejected(SubCallError(fn, which, resp.status))
    ELSE IF fn = "coingecko" /\ which = "global"
    THEN Fulfilled(getGlobalMarketData(resp.data))
    ELSE Fulfilled(resp.data)

\* sub-calls run one after the other: the global-metrics call is not made
\* while the listings call is awaited
IssueSubCalls_Sequential(fn, key, limit) ==
    IF fn = "cmc" /\ ~key
    THEN [listings |-> Fulfilled(getMockCMCData(limit)),
          global |-> Fulfilled(getMockGlobalMetrics)]
    ELSE [listings |-> Pending, global |-> [status |-> "not_called"]]

\* the two sub-calls up to their first await: without the CoinMarketCap key
\* the CMC sub-calls return the mock data and issue no request
IssueSubCalls(fn, key, limit) ==
    IF fn = "cmc" /\ ~key
    THEN [listings |-> Fulfilled(getMockCMCData(limit)),
          global |-> Fulfilled(getMockGlobalMetrics)]
    ELSE [listings |-> Pending, global |-> Pending]

FetchesIssued(fn, key) == IF fn = "cmc" /\ ~key THEN 0 ELSE 2

\* the sub-calls of `order` that are rejected, in settling order
RejectedIn(subs, order) ==
    SelectSeq(order, LAMBDA w : subs[w].status = "rejected")

\* a combinator that waits for every sub-call and puts an empty default in
\* the place of a failed one
PromiseAll_Tolerant(subs, order) ==
    IF \E w \in SubCalls : subs[w] = Pending THEN Pending
    ELSE Fulfilled(
           [listings |-> IF subs.listings.status = "fulfilled"
                         THEN subs.listings.value ELSE <<>>,
            global |-> IF subs.global.status = "fulfilled"
                       THEN subs.global.value
                       ELSE [total_market_cap |-> Money(0, "none"),
                             total_volume_24h |-> Money(0, "none"),
                             total_volume |-> Money(0, "none"),
                             btc_dominance |-> 0, eth_dominance |-> 0,
                             active_cryptocurrencies |-> 0,
                             active_exchanges |-> 0]])

\* a combinator that reports the most recent rejection
PromiseAll_LastRejection(subs, order) ==
    LET rej == RejectedIn(subs, order)
    IN  IF rej # <<>> THEN Rejected(subs[rej[Len(rej)]].reason)
        ELSE IF \A w \in SubCalls : subs[w].status = "fulfilled"
        THEN Fulfilled([listings |-> subs.listings.value, global |-> subs.global.value])
        ELSE Pending

\* Promise.all([listings, global]): rejected with the reason of the first
\* sub-call to reject, fulfilled with both values once both are fulfilled
PromiseAll(subs, order) ==
    LET rej == RejectedIn(subs, order)
    IN  IF rej # <<>> THEN Rejected(subs[rej[1]].reason)
        ELSE IF \A w \in SubCalls : subs[w].status = "fulfilled"
        THEN Fulfilled([listings |-> subs.listings.value, global |-> subs.global.value])
        ELSE Pending

\* the object getCMCMarketOverview returns; reading crypto.quote[currency].price
\* of a listing that has no quote in `currency` is a TypeError
BuildOverview(topCryptos, globalMetrics, currency) ==
    IF \E i \in 1..Len(topCryptos) : currency \notin DOMAIN topCryptos[i].quote
    THEN [threw |-> TRUE,
          error |-> [message |-> "TypeError: Cannot read properties of undefined"]]
    ELSE [ok |-> TRUE,
          currency |-> currency,
          global |-> [total_market_cap |-> globalMetrics.total_market_cap,
                      total_volume_24h |-> globalMetrics.total_volume_24h,
                      btc_dominance |-> globalMetrics.btc_dominance,
                      eth_dominance |-> globalMetrics.eth_dominance,
                      active_cryptocurrencies |-> globalMetrics.active_cryptocurrencies,
                      active_exchanges |-> globalMetrics.active_exchanges],
          top_cryptos |-> [i \in 1..Len(topCryptos) |->
              [rank |-> topCryptos[i].cmc_rank,
               name |-> topCryptos[i].name,
               symbol |-> topCryptos[i].symbol,
               price |-> topCryptos[i].quote[currency].price,
               market_cap |-> topCryptos[i].quote[currency].market_cap,
               volume_24h |-> topCryptos[i].quote[currency].volume_24h,
               percent_change_24h |-> topCryptos[i].quote[currency].percent_change_24h,
               percent_change_7d |-> topCryptos[i].quote[currency].percent_change_7d]],
          meta |-> [source |-> "CoinMarketCap API", count |-> Len(topCryptos)]]

\* the object getCryptoSummary returns
BuildSummary(coins, globalData, currency) ==
    [ok |-> TRUE,
     currency |-> currency,
     total_market_cap |-> globalData.total_market_cap,
     total_volume |-> globalData.total_volume,
     coins |-> coins,
     meta |-> [source |-> "CoinGecko API v3", count |-> Len(coins)]]

BuildSnapshot(fn, values, currency) ==
    IF fn = "cmc" THEN BuildOverview(values.listings, values.global, currency)
                  ELSE BuildSummary(values.listings, values.global, currency)

\* the catch blocks: getCMCMarketOverview rethrows the error it caught,
\* getCryptoSummary throws `Failed to fetch crypto summary: ${error.message}`
AggregateFailure(fn, e) ==
    IF fn = "cmc" THEN e
    ELSE [message |-> "Failed to fetch crypto summary", cause |-> e]

\* an aggregator is called: both sub-calls are started, then it awaits
\* Promise.all
Aggregator_Call(fn, limit, currency) ==
    /\ agg_pc = "idle"
    /\ agg_fn' = fn
    /\ agg_limit' = limit
    /\ agg_currency' = currency
    /\ sub' = IssueSubCalls(fn, CMC_API_KEY, limit)
    /\ settleOrder' = IF sub'.listings = Pending THEN <<>> ELSE <<"listings", "global">>
    /\ fetches' = fetches + FetchesIssued(fn, CMC_API_KEY)
    /\ agg_pc' = "awaiting"
    /\ UNCHANGED <<CMC_API_KEY, agg_result, agg_thrown>>

\* a pending sub-call gets its response; nothing cancels the other sub-call,
\* which may still settle after the aggregator has failed
SubCall_Settle(which) ==
    /\ agg_pc \in {"awaiting", "failed"}
    /\ sub[which] = Pending
    /\ \E resp \in SubResponses(agg_fn, which, agg_limit, agg_currency) :
         sub' = [sub EXCEPT ![which] = SubCallSettle(agg_fn, which, resp)]
    /\ settleOrder' = Append(settleOrder, which)
    /\ UNCHANGED <<CMC_API_KEY, agg_pc, agg_fn, agg_limit, agg_currency, fetches,
                   agg_result, agg_thrown>>

\* Promise.all has settled and the aggregator resumes: it builds and returns
\* the snapshot, or its catch block throws
Aggregator_Resume ==
    /\ agg_pc = "awaiting"
    /\ PromiseAll(sub, settleOrder) # Pending
    /\ LET all == PromiseAll(sub, settleOrder)
           snap == BuildSnapshot(agg_fn, all.value, agg_currency)
       IN  IF all.status = "rejected"
           THEN /\ agg_thrown' = Append(agg_thrown, AggregateFailure(agg_fn, all.reason))
                /\ agg_pc' = "failed"
                /\ UNCHANGED agg_result
           ELSE IF Threw(snap)
           THEN /\ agg_thrown' = Append(agg_thrown, AggregateFailure(agg_fn, snap.error))
                /\ agg_pc' = "failed"
                /\ UNCHANGED agg_result
           ELSE /\ agg_result' = snap
                /\ agg_pc' = "returned"
                /\ UNCHANGED agg_thrown
    /\ UNCHANGED <<CMC_API_KEY, agg_fn, agg_limit, agg_currency, sub, settleOrder, fetches>>

AggNext ==
    \/ \E fn \in {"cmc", "coingecko"}, limit \in 0..MaxLimit :
         \E currency \in AggCurrencies(fn) : Aggregator_Call(fn, limit, currency)
    \/ \E which \in SubCalls : SubCall_Settle(which)
    \/ Aggregator_Resume

(***************************************************************************)
(* JavaScript values and strings used by the route handlers.               *)
(* A string that the code inspects character by character is held as the   *)
(* sequence of its characters; a number-or-not value is held tagged.       *)
(***************************************************************************)
Undefined == [t |-> "undefined"]
NaN == [t |-> "NaN"]
Num(n) == [t |-> "num", v |-> n]

\* a query parameter: searchParams.get(name) is null or a string
NoParam == [present |-> FALSE, text |-> <<>>]
Param(chars) == [present |-> TRUE, text |-> chars]

\* `searchParams.get(name) ? ... : ...` and `searchParams.get(name) || ...`:
\* null and the empty string are falsy
ParamTruthy(raw) == raw.present /\ raw.text # <<>>

\* `if (x)` on a number-or-undefined value: undefined, NaN and 0 are falsy
Truthy(x) == x.t = "num" /\ x.v # 0

Digits == <<"0", "1", "2", "3", "4", "5", "6", "7", "8", "9">>

IsDigit(c) == \E k \in 1..10 : Digits[k] = c

DigitValue(c) == (CHOOSE k \in 1..10 : Digits[k] = c) - 1

IsSpace(c) == c = " "

\* String.prototype.trim, front and back
RECURSIVE TrimStart(_)
TrimStart(str) ==
    IF str # <<>> /\ IsSpace(Head(str)) THEN TrimStart(Tail(str)) ELSE str

RECURSIVE TrimEnd(_)
TrimEnd(str) ==
    IF str # <<>> /\ IsSpace(str[Len(str)])
    THEN TrimEnd(SubSeq(str, 1, Len(str) - 1)) ELSE str

Trim(str) == TrimEnd(TrimStart(str))

\* the value of the longest prefix of digits of str, continuing from acc
RECURSIVE DigitsValue(_, _)
DigitsValue(str, acc) ==
    IF str # <<>> /\ IsDigit(Head(str))
    THEN DigitsValue(Tail(str), acc * 10 + DigitValue(Head(str)))
    ELSE acc

\* parseInt(str): leading blanks skipped, an optional sign, then decimal
\* digits up to the first other character; NaN when there is no digit
ParseInt(str) ==
    LET t == TrimStart(str)
        neg == t # <<>> /\ Head(t) = "-"
        body == IF t # <<>> /\ Head(t) \in {"-", "+"} THEN Tail(t) ELSE t
    IN  IF body = <<>> \/ ~IsDigit(Head(body)) THEN NaN
        ELSE Num((IF neg THEN -1 ELSE 1) * DigitsValue(body, 0))

\* String.prototype.split(","): the pieces between the commas
RECURSIVE SplitFrom(_, _)
SplitFrom(str, piece) ==
    IF str = <<>> THEN <<piece>>
    ELSE IF Head(str) = "," THEN <<piece>> \o SplitFrom(Tail(str), <<>>)
    ELSE SplitFrom(Tail(str), Append(piece, Head(str)))

SplitCommas(str) == SplitFrom(str, <<>>)

LowerLetters == <<"a", "b", "c", "d", "e", "f", "g", "h", "i", "j", "k", "l", "m",
                  "n", "o", "p", "q", "r", "s", "t", "u", "v", "w", "x", "y", "z">>

UpperLetters == <<"A", "B", "C", "D", "E", "F", "G", "H", "I", "J", "K", "L", "M",
                  "N", "O", "P", "Q", "R", "S", "T", "U", "V", "W", "X", "Y", "Z">>

\* String.prototype.toLowerCase
ToLowerCase(str) ==
    [i \in 1..Len(str) |->
        IF \E k \in 1..26 : UpperLetters[k] = str[i]
        THEN LowerLetters[CHOOSE k \in 1..26 : UpperLetters[k] = str[i]]
        ELSE str[i]]

\* String.prototype.includes: needle occurs in hay as a contiguous run
Includes(hay, needle) ==
    \E i \in 0..(Len(hay) - Len(needle)) :
        SubSeq(hay, i + 1, i + Len(needle)) = needle

\* x <= y on numbers-or-NaN: false when either side is NaN
JsLeq(x, y) == x.t = "num" /\ y.t = "num" /\ x.v <= y.v

\* a rounding that sends halves down
RoundHalfUp_HalfDown(num, den) == (2 * num + den - 1) \div (2 * den)

\* Math.round(num / den) for num >= 0, den > 0: halves are rounded up
RoundHalfUp(num, den) == (2 * num + den) \div (2 * den)

(***************************************************************************)
(* Filter / rank engine: getBusinessOpportunities, getDomainOpportunities  *)
(* and their route handlers.                                               *)
(***************************************************************************)

\* the largest candidate list given to the sort step on its own
MaxItems == 4

\* an insertion that puts i before the positions with an equal key
RECURSIVE InsertDesc_TiesFirst(_, _, _)
InsertDesc_TiesFirst(sorted, i, keys) ==
    IF sorted = <<>> THEN <<i>>
    ELSE IF keys[i] - keys[Head(sorted)] >= 0 THEN <<i>> \o sorted
    ELSE <<Head(sorted)>> \o InsertDesc_TiesFirst(Tail(sorted), i, keys)

\* Array.prototype.sort with a comparator that orders by a numeric key,
\* larger keys first: insertion of position i into the sorted positions.
\* The sort is stable: i goes before the first position whose key is
\* smaller, hence after every position with an equal key.
RECURSIVE InsertDesc(_, _, _)
InsertDesc(sorted, i, keys) ==
    IF sorted = <<>> THEN <<i>>
    ELSE IF keys[i] - keys[Head(sorted)] > 0 THEN <<i>> \o sorted
    ELSE <<Head(sorted)>> \o InsertDesc(Tail(sorted), i, keys)

RECURSIVE SortedPositions(_, _)
SortedPositions(n, keys) ==
    IF n = 0 THEN <<>> ELSE InsertDesc(SortedPositions(n - 1, keys), n, keys)

\* arr.sort((a, b) => key(b) - key(a)), keys[i] being the key of arr[i]
SortDescBy(arr, keys) ==
    LET pos == SortedPositions(Len(arr), keys)
    IN  [k \in 1..Len(arr) |-> arr[pos[k]]]

\* filtered.sort((a, b) => b.score - a.score)
SortByScore(arr) == SortDescBy(arr, [i \in 1..Len(arr) |-> arr[i].score])

\* `opp.roi_score || 0`: a missing (or zero) roi_score counts as 0
RoiOrZero(opp) ==
    IF "roi_score" \in DOMAIN opp /\ opp.roi_score # 0 THEN opp.roi_score ELSE 0

\* filtered.sort((a, b) => (b.roi_score || 0) - (a.roi_score || 0))
SortByRoi(arr) == SortDescBy(arr, [i \in 1..Len(arr) |-> RoiOrZero(arr[i])])

\* the mock business listings (price, revenue and profit in USD; multiple
\* and score in tenths)
mockBusinessOpportunities ==
    << [id |-> "flip_001", category |-> "saas", price |-> 45000,
        monthly_revenue |-> 2500, monthly_profit |-> 1800, multiple |-> 250,
        age_months |-> 18, verified |-> TRUE, score |-> 85],
       [id |-> "micro_002", category |-> "ecommerce", price |-> 28000,
        monthly_revenue |-> 4200, monthly_profit |-> 1200, multiple |-> 233,
        age_months |-> 24, verified |-> TRUE, score |-> 78],
       [id |-> "indie_003", category |-> "app", price |-> 15000,
        monthly_revenue |-> 800, monthly_profit |-> 650, multiple |-> 231,
        age_months |-> 12, verified |-> FALSE, score |-> 72],
       [id |-> "flip_004", category |-> "saas", price |-> 95000,
        monthly_revenue |-> 5500, monthly_profit |-> 3800, multiple |-> 250,
        age_months |-> 30, verified |-> TRUE, score |-> 91],
       [id |-> "micro_005", category |-> "saas", price |-> 32000,
        monthly_revenue |-> 1800, monthly_profit |-> 1200, multiple |-> 267,
        age_months |-> 15, verified |-> TRUE, score |-> 80] >>

\* `if (category) filtered = filtered.filter(opp => opp.category === category)`
\* category is undefined or a string; the empty string is falsy
FilterCategory(arr, category) ==
    IF category.t = "str" /\ category.v # ""
    THEN SelectSeq(arr, LAMBDA opp : opp.category = category.v)
    ELSE arr

\* a price filter that is never applied
FilterMaxPrice_Ignored(arr, maxPrice) == arr

\* `if (maxPrice) filtered = filtered.filter(opp => opp.price <= maxPrice)`
FilterMaxPrice(arr, maxPrice) ==
    IF Truthy(maxPrice)
    THEN SelectSeq(arr, LAMBDA opp : JsLeq(Num(opp.price), maxPrice))
    ELSE arr

\* `if (minRevenue) filtered = filtered.filter(opp => opp.monthly_revenue >= minRevenue)`
FilterMinRevenue(arr, minRevenue) ==
    IF Truthy(minRevenue)
    THEN SelectSeq(arr, LAMBDA opp : JsLeq(minRevenue, Num(opp.monthly_revenue)))
    ELSE arr

\* getBusinessOpportunities: filter, sort, aggregate (avg_multiple in tenths)
getBusinessOpportunities(category, maxPrice, minRevenue) ==
    LET filtered == SortByScore(
                      FilterMinRevenue(
                        FilterMaxPrice(
                          FilterCategory(mockBusinessOpportunities, category),
                          maxPrice),
                        minRevenue))
        total_value == SumSeq([i \in 1..Len(filtered) |-> filtered[i].price])
        avg_multiple ==
            IF Len(filtered) > 0
            THEN RoundHalfUp(SumSeq([i \in 1..Len(filtered) |-> filtered[i].multiple]),
                             Len(filtered))
            ELSE 0
    IN  [ok |-> TRUE, currency |-> "USD", opportunities |-> filtered,
         meta |-> [source |-> "Flippa + MicroAcquire + IndieHackers (Mock)",
                   count |-> Len(filtered),
                   total_value |-> total_value,
                   avg_multiple |-> avg_multiple]]

\* calculateBusinessMetrics (roi_months and profit_margin in tenths)
calculateBusinessMetrics(opp) ==
    [roi_months |-> RoundHalfUp(10 * opp.price, opp.monthly_profit),
     annual_revenue |-> opp.monthly_revenue * 12,
     annual_profit |-> opp.monthly_profit * 12,
     profit_margin |-> RoundHalfUp(1000 * opp.monthly_profit, opp.monthly_revenue)]

\* the query parameters of GET /api/business/tracker as the handler reads
\* them; rawCategory "" stands for a missing or empty parameter (both falsy)
BusinessQuery(rawCategory, rawMaxPrice, rawMinRevenue) ==
    [category |-> IF rawCategory = "" THEN Undefined
                  ELSE [t |-> "str", v |-> rawCategory],
     maxPrice |-> IF ParamTruthy(rawMaxPrice) THEN ParseInt(rawMaxPrice.text)
                  ELSE Undefined,
     minRevenue |-> IF ParamTruthy(rawMinRevenue) THEN ParseInt(rawMinRevenue.text)
                    ELSE Undefined]

\* the body GET /api/business/tracker answers with: the report, each
\* opportunity enriched with its metrics
BusinessTrackerResponse(q) ==
    LET report == getBusinessOpportunities(q.category, q.maxPrice, q.minRevenue)
    IN  [report EXCEPT !.opportunities =
            [i \in 1..Len(report.opportunities) |->
                report.opportunities[i] @@
                ("metrics" :> calculateBusinessMetrics(report.opportunities[i]))]]

\* the mock domain listings (price in USD, roi_score in hundredths)
mockDomainOpportunities ==
    << [domain |-> <<"f", "i", "n", "a", "n", "c", "e", "f", "l", "o", "w">>, extension |-> ".io", price |-> 299,
        status |-> "available", estimated_value |-> 500, roi_score |-> 167],
       [domain |-> <<"c", "r", "y", "p", "t", "o", "t", "r", "a", "c", "k", "e", "r">>, extension |-> ".com", price |-> 1200,
        status |-> "auction", estimated_value |-> 2500, roi_score |-> 208],
       [domain |-> <<"s", "a", "a", "s", "m", "e", "t", "r", "i", "c", "s">>, extension |-> ".ai", price |-> 450,
        status |-> "premium", estimated_value |-> 800, roi_score |-> 178],
       [domain |-> <<"p", "o", "r", "t", "f", "o", "l", "i", "o", "d", "a", "s", "h">>, extension |-> ".app", price |-> 89,
        status |-> "available", estimated_value |-> 200, roi_score |-> 225] >>

\* a match that compares the keyword as typed
KeywordMatches_CaseSensitive(domain, kw) == Includes(ToLowerCase(domain), kw)

\* opp.domain.toLowerCase().includes(kw.toLowerCase())
KeywordMatches(domain, kw) == Includes(ToLowerCase(domain), ToLowerCase(kw))

\* a keyword predicate every domain satisfies
MatchesKeyword_Always(opp, keywords) == TRUE

\* keywords.length === 0 || keywords.some(kw => ...)
MatchesKeyword(opp, keywords) ==
    \/ Len(keywords) = 0
    \/ \E k \in 1..Len(keywords) : KeywordMatches(opp.domain, keywords[k])

\* getDomainOpportunities: filter by keyword and price, sort, aggregate
getDomainOpportunities(keywords, maxPrice) ==
    LET filtered == SortByRoi(
                      SelectSeq(mockDomainOpportunities,
                                LAMBDA opp : /\ MatchesKeyword(opp, keywords)
                                             /\ JsLeq(Num(opp.price), maxPrice)))
        total_value == SumSeq([i \in 1..Len(filtered) |-> filtered[i].price])
    IN  [ok |-> TRUE, currency |-> "USD", opportunities |-> filtered,
         meta |-> [source |-> "Namecheap API (Mock)",
                   count |-> Len(filtered),
                   total_value |-> total_value]]

\* the query parameters of GET /api/domains/opportunities as the handler
\* reads them: keywords split at commas and trimmed, maxPrice defaulting
\* to "1000"
DomainsQuery(rawKeywords, rawMaxPrice) ==
    [keywords |-> IF ParamTruthy(rawKeywords)
                  THEN [k \in 1..Len(SplitCommas(rawKeywords.text)) |->
                           Trim(SplitCommas(rawKeywords.text)[k])]
                  ELSE <<>>,
     maxPrice |-> ParseInt(IF ParamTruthy(rawMaxPrice) THEN rawMaxPrice.text
                           ELSE <<"1", "0", "0", "0">>)]

\* the values of the category parameter explored ("" : missing or empty)
RawCategories == {"", "saas", "ecommerce", "app", "content", "SaaS"}

\* the values of the maxPrice parameter of the business tracker explored
RawMaxPrices ==
    {NoParam, Param(<<>>), Param(<<"0">>), Param(<<"3", "0", "0", "0", "0">>), Param(<<"5", "0", "0", "0", "0">>), Param(<<"1", "0", "0", "0", "0", "0">>), Param(<<"a", "b", "c">>)}

\* the values of the minRevenue parameter explored
RawMinRevenues == {NoParam, Param(<<"0">>), Param(<<"1", "0", "0", "0">>), Param(<<"2", "0", "0", "0">>), Param(<<"5", "0", "0", "0">>)}

\* the values of the keywords parameter explored
RawKeywords ==
    {NoParam, Param(<<>>), Param(<<"f", "i", "n", "a", "n", "c", "e", ",", "c", "r", "y", "p", "t", "o">>), Param(<<"F", "i", "n", "a", "n", "c", "e">>), Param(<<"F", "L", "O", "W", ",", " ", "D", "a", "s", "h">>), Param(<<"x", "y", "z">>),
     Param(<<"s", "a", "a", "s", ",">>), Param(<<"A", "I">>), Param(<<" ", "C", "r", "y", "p", "t", "o", " ", ",", "m", "e", "t", "r", "i", "c", "s">>)}

\* the values of the maxPrice parameter of the domains route explored
RawDomainMaxPrices ==
    {NoParam, Param(<<"0">>), Param(<<"8", "9">>), Param(<<"2", "9", "9">>), Param(<<"1", "0", "0", "0">>), Param(<<"1", "2", "0", "0">>), Param(<<"a", "b", "c">>)}

\* GET /api/business/tracker
BusinessTracker_GET(rawCategory, rawMaxPrice, rawMinRevenue) ==
    /\ eng_pc = "idle"
    /\ eng_pc' = "business"
    /\ eng_query' = BusinessQuery(rawCategory, rawMaxPrice, rawMinRevenue)
    /\ eng_result' = BusinessTrackerResponse(eng_query')

\* GET /api/domains/opportunities
DomainOpportunities_GET(rawKeywords, rawMaxPrice) ==
    /\ eng_pc = "idle"
    /\ eng_pc' = "domains"
    /\ eng_query' = DomainsQuery(rawKeywords, rawMaxPrice)
    /\ eng_result' = getDomainOpportunities(eng_query'.keywords, eng_query'.maxPrice)

EngNext ==
    \/ \E c \in RawCategories, p \in RawMaxPrices, r \in RawMinRevenues :
         BusinessTracker_GET(c, p, r)
    \/ \E k \in RawKeywords, p \in RawDomainMaxPrices : DomainOpportunities_GET(k, p)

\* the scores (tenths) and roi scores (hundredths; 0 in first place stands
\* for a record without roi_score) given to the candidates of a list handed
\* to the sort step on its own
RankScores == <<72, 85, 91>>
RankRois == <<0, 0, 167>>

\* candidate lists of n records, the i-th with id i and the score chosen by
\* choice[i] in 1..3
BusinessCandidates(choice) ==
    [i \in 1..Len(choice) |-> [id |-> i, score |-> RankScores[choice[i]]]]

DomainCandidates(choice) ==
    [i \in 1..Len(choice) |->
        IF choice[i] = 1 THEN [id |-> i]
        ELSE [id |-> i, roi_score |-> RankRois[choice[i]]]]

\* the sort step of getBusinessOpportunities applied to a candidate list
SortStep_Business(candidates) ==
    /\ eng_pc = "idle"
    /\ eng_pc' = "rank_business"
    /\ eng_query' = candidates
    /\ eng_result' = SortByScore(candidates)

\* the sort step of getDomainOpportunities applied to a candidate list
SortStep_Domains(candidates) ==
    /\ eng_pc = "idle"
    /\ eng_pc' = "rank_domains"
    /\ eng_query' = candidates
    /\ eng_result' = SortByRoi(candidates)

RankNext ==
    \/ \E n \in 0..MaxItems : \E choice \in [1..n -> 1..3] :
         SortStep_Business(BusinessCandidates(choice))
    \/ \E n \in 0..MaxItems : \E choice \in [1..n -> 1..3] :
         SortStep_Domains(DomainCandidates(choice))

(***************************************************************************)
(* Alert engine: generateMarketAlerts.  Percentages are held in            *)
(* hundredths of a percent.                                                *)
(***************************************************************************)

\* the largest number of items of a snapshot given to the alert engine
MaxCryptos == 3

\* Math.abs on a number-or-undefined value: NaN for undefined
MathAbs(x) == IF x.t = "num" THEN Num(IF x.v < 0 THEN -x.v ELSE x.v) ELSE NaN

\* x > n on a number-or-NaN-or-undefined value: false unless x is a number
JsGt(x, n) == x.t = "num" /\ x.v > n

\* x < n likewise
JsLt(x, n) == x.t = "num" /\ x.v < n

\* the callback of top_cryptos.forEach with thresholds that are included
ItemAlerts_Inclusive(crypto) ==
    LET change == crypto.percent_change_24h
        up == JsGt(change, 0)
    IN  IF JsGt(MathAbs(change), 999)
        THEN << [type |-> IF up THEN "opportunity" ELSE "warning",
                 title |-> <<crypto.name, IF up THEN "Surge" ELSE "Drop">>,
                 message |-> [symbol |-> crypto.symbol,
                              verb |-> IF up THEN "gained" ELSE "lost",
                              amount |-> MathAbs(change)],
                 priority |-> IF JsGt(MathAbs(change), 1499) THEN "high"
                              ELSE "medium"] >>
        ELSE <<>>

\* the callback of top_cryptos.forEach: the alerts pushed for one item
ItemAlerts(crypto) ==
    LET change == crypto.percent_change_24h
        up == JsGt(change, 0)
    IN  IF JsGt(MathAbs(change), 1000)
        THEN << [type |-> IF up THEN "opportunity" ELSE "warning",
                 title |-> <<crypto.name, IF up THEN "Surge" ELSE "Drop">>,
                 message |-> [symbol |-> crypto.symbol,
                              verb |-> IF up THEN "gained" ELSE "lost",
                              amount |-> MathAbs(change)],
                 priority |-> IF JsGt(MathAbs(change), 1500) THEN "high"
                              ELSE "medium"] >>
        ELSE <<>>

\* marketData.top_cryptos.forEach(...): the pushes of every item, in order
RECURSIVE ForEachCrypto(_)
ForEachCrypto(cryptos) ==
    IF cryptos = <<>> THEN <<>>
    ELSE ItemAlerts(Head(cryptos)) \o ForEachCrypto(Tail(cryptos))

\* `if (marketData.global.btc_dominance < 50) alerts.push({type: 'info', ...})`
DominanceAlerts(global) ==
    IF JsLt(global.btc_dominance, 5000)
    THEN << [type |-> "info",
             title |-> <<"Altcoin Season Indicator">>,
             message |-> [dominance |-> global.btc_dominance],
             priority |-> "medium"] >>
    ELSE <<>>

\* an engine that evaluates the global rule before the item rule
generateMarketAlerts_GlobalFirst(marketData) ==
    [alerts |-> DominanceAlerts(marketData.global)
                \o ForEachCrypto(marketData.top_cryptos)]

\* generateMarketAlerts
generateMarketAlerts(marketData) ==
    [alerts |-> ForEachCrypto(marketData.top_cryptos)
                \o DominanceAlerts(marketData.global)]

\* names and symbols of the items of a snapshot, by rank
CryptoNames == <<"Bitcoin", "Ethereum", "Solana", "Cardano", "Ripple", "Dogecoin">>
CryptoSymbols == <<"BTC", "ETH", "SOL", "ADA", "XRP", "DOGE">>

\* the 24h changes explored, around the two thresholds and of both signs,
\* and a missing value
Changes24h ==
    {Num(c) : c \in {-1600, -1500, -1001, -1000, 0, 1000, 1001, 1500, 1600}}
        \cup {Undefined}

\* the BTC dominances explored, around the threshold
Dominances == {Num(4999), Num(5000), Num(5210)}

\* snapshots of n items with the changes chosen by change[i]
MarketData(change, dominance) ==
    [top_cryptos |-> [i \in 1..Len(change) |->
                        [name |-> CryptoNames[((i - 1) % 6) + 1],
                         symbol |-> CryptoSymbols[((i - 1) % 6) + 1],
                         rank |-> i,
                         percent_change_24h |-> change[i]]],
     global |-> [btc_dominance |-> dominance]]

\* an engine with a module-level memory of the alerts it raised last time,
\* which it does not raise again
generateMarketAlerts_Call_Remembering(marketData) ==
    /\ al_pc = "idle"
    /\ al_pc' = "done"
    /\ al_given' = marketData
    /\ al_input' = marketData
    /\ al_result' =
          [alerts |-> SelectSeq(generateMarketAlerts(marketData).alerts,
                                LAMBDA a : \/ "alerts" \notin DOMAIN al_result
                                           \/ \A k \in 1..Len(al_result.alerts) :
                                                 al_result.alerts[k] # a)]
    /\ UNCHANGED al_kept

\* a call of generateMarketAlerts on a snapshot: the function reads
\* marketData and a local array only, and writes to neither marketData nor
\* anything outside the call, so the caller's object is afterwards as given
generateMarketAlerts_Call(marketData) ==
    /\ al_pc = "idle"
    /\ al_pc' = "done"
    /\ al_given' = marketData
    /\ al_input' = marketData
    /\ al_result' = generateMarketAlerts(marketData)
    /\ UNCHANGED al_kept

\* the caller takes the result and is ready to call again; it may keep this
\* evaluation for a later comparison
generateMarketAlerts_Return ==
    /\ al_pc = "done"
    /\ al_pc' = "idle"
    /\ al_kept' \in {al_kept, [given |-> al_given, result |-> al_result]}
    /\ UNCHANGED <<al_input, al_result, al_given>>

\* the changes and dominances of the snapshots evaluated repeatedly
RepeatChanges == {Num(-1600), Num(1200)}

RepeatDominances == {Num(4999), Num(5210)}

AlertRepeatNext ==
    \/ \E n \in 0..MaxCryptos : \E change \in [1..n -> RepeatChanges] :
          \E dominance \in RepeatDominances :
              generateMarketAlerts_Call(MarketData(change, dominance))
    \/ generateMarketAlerts_Return

AlertNext ==
    \E n \in 0..MaxCryptos : \E change \in [1..n -> Changes24h] :
        \E dominance \in Dominances :
            generateMarketAlerts_Call(MarketData(change, dominance))

(***************************************************************************)
(* Report renderer: generateMarkdownReport with its formatCurrency and     *)
(* formatPercent.                                                          *)
(*                                                                         *)
(* An amount of money is held as [t |-> "num", m, u, f]: m millions, u     *)
(* units below one million (0..999999) and f ten-thousandths of a unit     *)
(* (0..9999), its value being m * 10^6 + u + f / 10^4.  A percentage is    *)
(* held in thousandths of a percent.  A rendered number is held as its     *)
(* sign and its count of hundredths (toFixed(2)) or tenths (toFixed(1)).   *)
(***************************************************************************)

Amount(m, u, f) == [t |-> "num", m |-> m, u |-> u, f |-> f]

Str(chars) == [t |-> "str", v |-> chars]

Defined(x) == x.t # "undefined"

\* String.prototype.toUpperCase
ToUpperCase(str) ==
    [i \in 1..Len(str) |->
        IF \E k \in 1..26 : LowerLetters[k] = str[i]
        THEN UpperLetters[CHOOSE k \in 1..26 : LowerLetters[k] = str[i]]
        ELSE str[i]]

\* Number.prototype.toFixed(2) of num / 10^12, num / 10^9, num / 10^6 and
\* num for an amount: the count of hundredths nearest to the quotient, the
\* larger one when two are equally near
ToFixed2Trillions(num) ==
    (num.m \div 10000) + (IF num.m % 10000 >= 5000 THEN 1 ELSE 0)

ToFixed2Billions(num) ==
    (num.m \div 10) + (IF num.m % 10 >= 5 THEN 1 ELSE 0)

ToFixed2Millions(num) ==
    100 * num.m + (num.u \div 10000) + (IF num.u % 10000 >= 5000 THEN 1 ELSE 0)

ToFixed2Units(num) ==
    100 * num.u + (num.f \div 100) + (IF num.f % 100 >= 50 THEN 1 ELSE 0)

\* formatCurrency: num >= 1e12 is m >= 10^6, num >= 1e9 is m >= 1000 and
\* num >= 1e6 is m >= 1
formatCurrency(num) ==
    IF num.m >= 1000000
    THEN [prefix |-> "$", hundredths |-> ToFixed2Trillions(num), suffix |-> "T"]
    ELSE IF num.m >= 1000
    THEN [prefix |-> "$", hundredths |-> ToFixed2Billions(num), suffix |-> "B"]
    ELSE IF num.m >= 1
    THEN [prefix |-> "$", hundredths |-> ToFixed2Millions(num), suffix |-> "M"]
    ELSE [prefix |-> "$", hundredths |-> ToFixed2Units(num), suffix |-> ""]

\* Number.prototype.toFixed(digits) of a signed number held in a finer
\* unit, `per` of which make one of the last digit kept: a "-" for a
\* negative number, then the nearest count for its magnitude
ToFixed(v, per) ==
    [minus |-> v < 0,
     digits |-> RoundHalfUp(IF v < 0 THEN -v ELSE v, per)]

\* formatPercent: sign is '+' for num >= 0 and '' otherwise
formatPercent(num) ==
    [sign |-> IF num.v >= 0 THEN "+" ELSE "",
     number |-> ToFixed(num.v, 10), decimals |-> 2, suffix |-> "%"]

\* `${num.toFixed(1)}%` of the dominance rows (num in hundredths)
DominanceCell(num) ==
    [sign |-> "", number |-> ToFixed(num.v, 10), decimals |-> 1, suffix |-> "%"]

\* Number.prototype.toLocaleString of a count: its groups of three digits
RECURSIVE ToLocaleString(_)
ToLocaleString(n) ==
    IF n < 1000 THEN <<n>> ELSE ToLocaleString(n \div 1000) \o <<n % 1000>>

\* `${x}` in the template literal: the text of x, "undefined" for undefined
Interpolate(x) ==
    IF Defined(x) THEN [placeholder |-> FALSE, of |-> x]
    ELSE [placeholder |-> TRUE, text |-> "undefined"]

\* one row of the table "Top Cryptocurrencies"
CryptoRow(c) ==
    [rank |-> Interpolate(c.rank),
     name |-> Interpolate(c.name),
     symbol |-> Interpolate(c.symbol),
     price |-> formatCurrency(c.price),
     percent_change_24h |-> formatPercent(c.percent_change_24h),
     percent_change_7d |-> formatPercent(c.percent_change_7d),
     market_cap |-> formatCurrency(c.market_cap)]

\* one row of the table "Top Trading Pairs (Binance)"
PairRow(p) ==
    [symbol |-> Interpolate(p.symbol),
     price |-> formatCurrency(p.price),
     priceChangePercent24h |-> formatPercent(p.priceChangePercent24h),
     quoteVolume24h |-> formatCurrency(p.quoteVolume24h)]

\* the template calls a method (toFixed, toUpperCase, toLocaleString, map)
\* on an undefined value: evaluating it throws a TypeError
TemplateThrows(data) ==
    LET market_overview == data.data.market_overview
        pairs == Slice(data.data.trading_summary.pairs, 0, 10)
        ai_insights == data.data.ai_insights
    IN  \/ ~Defined(ai_insights.sentiment)
        \/ ~Defined(ai_insights.key_points)
        \/ ~Defined(ai_insights.opportunities)
        \/ ~Defined(ai_insights.risks)
        \/ ~Defined(market_overview.global.total_market_cap)
        \/ ~Defined(market_overview.global.total_volume_24h)
        \/ ~Defined(market_overview.global.btc_dominance)
        \/ ~Defined(market_overview.global.eth_dominance)
        \/ ~Defined(market_overview.global.active_cryptocurrencies)
        \/ ~Defined(market_overview.global.active_exchanges)
        \/ \E i \in 1..Len(market_overview.top_cryptos) :
              \/ ~Defined(market_overview.top_cryptos[i].price)
              \/ ~Defined(market_overview.top_cryptos[i].percent_change_24h)
              \/ ~Defined(market_overview.top_cryptos[i].percent_change_7d)
              \/ ~Defined(market_overview.top_cryptos[i].market_cap)
        \/ \E i \in 1..Len(pairs) :
              \/ ~Defined(pairs[i].price)
              \/ ~Defined(pairs[i].priceChangePercent24h)
              \/ ~Defined(pairs[i].quoteVolume24h)

\* generateMarkdownReport: the document, field by field in template order,
\* or the TypeError thrown while evaluating the template
generateMarkdownReport(data) ==
    LET market_overview == data.data.market_overview
        trading_summary == data.data.trading_summary
        ai_insights == data.data.ai_insights
        pairs == Slice(trading_summary.pairs, 0, 10)
    IN  IF TemplateThrows(data)
        THEN [threw |-> TRUE, error |-> "TypeError"]
        ELSE [threw |-> FALSE,
              report_id |-> Interpolate(data.report_id),
              generated |-> Interpolate(data.generated_at),
              version |-> Interpolate(data.meta.version),
              data_sources |-> data.meta.data_sources,
              summary |-> Interpolate(ai_insights.summary),
              sentiment |-> ToUpperCase(ai_insights.sentiment.v),
              confidence |-> Interpolate(ai_insights.confidence),
              total_market_cap |-> formatCurrency(market_overview.global.total_market_cap),
              total_volume_24h |-> formatCurrency(market_overview.global.total_volume_24h),
              btc_dominance |-> DominanceCell(market_overview.global.btc_dominance),
              eth_dominance |-> DominanceCell(market_overview.global.eth_dominance),
              active_cryptocurrencies |->
                  ToLocaleString(market_overview.global.active_cryptocurrencies.v),
              active_exchanges |->
                  ToLocaleString(market_overview.global.active_exchanges.v),
              top_cryptos |-> [i \in 1..Len(market_overview.top_cryptos) |->
                                 CryptoRow(market_overview.top_cryptos[i])],
              pairs |-> [i \in 1..Len(pairs) |-> PairRow(pairs[i])],
              key_points |-> ai_insights.key_points.v,
              opportunities |-> ai_insights.opportunities.v,
              risks |-> ai_insights.risks.v,
              recommendation |-> Interpolate(ai_insights.recommendation)]

\* the largest number of items of the market overview of a report and the
\* largest number of pairs of its trading summary (getBinanceTopPairs(10)
\* never gives more than 10)
MaxRows == 2
MaxPairs == 3

\* items of a market overview: amounts on and next to the thresholds
\* 10^6, 10^9 and 10^12, changes of both signs
CryptoSamples ==
    << [rank |-> Num(1), name |-> Str("Bitcoin"), symbol |-> Str("BTC"),
        price |-> Amount(0, 67234, 5612),
        market_cap |-> Amount(1320000, 0, 0),
        volume_24h |-> Amount(28500, 0, 0),
        percent_change_24h |-> Num(2125), percent_change_7d |-> Num(-3210)],
       [rank |-> Num(2), name |-> Str("Ethereum"), symbol |-> Str("ETH"),
        price |-> Amount(0, 3456, 1250),
        market_cap |-> Amount(1000000, 0, 0),
        volume_24h |-> Amount(15200, 0, 0),
        percent_change_24h |-> Num(0), percent_change_7d |-> Num(-4)],
       [rank |-> Num(3), name |-> Str("Tether"), symbol |-> Str("USDT"),
        price |-> Amount(0, 1, 0),
        market_cap |-> Amount(999999, 999999, 9900),
        volume_24h |-> Amount(45000, 0, 0),
        percent_change_24h |-> Num(10), percent_change_7d |-> Num(-16000)],
       [rank |-> Num(4), name |-> Str("Solana"), symbol |-> Str("SOL"),
        price |-> Amount(0, 0, 5234),
        market_cap |-> Amount(2500, 0, 0),
        volume_24h |-> Amount(999, 999999, 9900),
        percent_change_24h |-> Num(16000), percent_change_7d |-> Num(5125)],
       [rank |-> Num(5), name |-> Str("Dogecoin"), symbol |-> Str("DOGE"),
        price |-> Amount(0, 999999, 9900),
        market_cap |-> Amount(1, 0, 0),
        volume_24h |-> Amount(0, 500000, 0),
        percent_change_24h |-> Num(-1), percent_change_7d |-> Num(1234)] >>

\* pairs of a trading summary
PairSamples ==
    << [symbol |-> Str("BTCUSDT"), price |-> Amount(0, 67234, 5600),
        priceChange24h |-> Num(1234560), priceChangePercent24h |-> Num(1870),
        high24h |-> Amount(0, 68000, 0), low24h |-> Amount(0, 66000, 0),
        volume24h |-> Amount(0, 25000, 0),
        quoteVolume24h |-> Amount(1000, 0, 0)],
       [symbol |-> Str("ETHUSDT"), price |-> Amount(0, 3456, 7800),
        priceChange24h |-> Num(-45230), priceChangePercent24h |-> Num(-1290),
        high24h |-> Amount(0, 3500, 0), low24h |-> Amount(0, 3400, 0),
        volume24h |-> Amount(0, 180000, 0),
        quoteVolume24h |-> Amount(999, 999999, 9900)],
       [symbol |-> Str("DOGEUSDT"), price |-> Amount(0, 0, 1625),
        priceChange24h |-> Num(0), priceChangePercent24h |-> Num(0),
        high24h |-> Amount(0, 0, 1700), low24h |-> Amount(0, 0, 1600),
        volume24h |-> Amount(900, 0, 0),
        quoteVolume24h |-> Amount(146, 250000, 0)] >>

\* global metrics of a market overview (dominances in hundredths of a percent)
GlobalSamples ==
    << [total_market_cap |-> Amount(2450000, 0, 0),
        total_volume_24h |-> Amount(98500, 0, 0),
        btc_dominance |-> Num(5234), eth_dominance |-> Num(1725),
        active_cryptocurrencies |-> Num(9876), active_exchanges |-> Num(756)],
       [total_market_cap |-> Amount(999999, 995000, 0),
        total_volume_24h |-> Amount(999, 995000, 0),
        btc_dominance |-> Num(4996), eth_dominance |-> Num(1804),
        active_cryptocurrencies |-> Num(1234567), active_exchanges |-> Num(1000)] >>

\* an insight as generateMarketInsights returns it when the completion
\* holds every field
InsightSample ==
    [summary |-> Str("Markets are consolidating."),
     sentiment |-> Str(<<"b", "u", "l", "l", "i", "s", "h">>),
     key_points |-> Str(<<"BTC holds support", "Volume is rising">>),
     opportunities |-> Str(<<"Accumulate ETH">>),
     risks |-> Str(<<"Regulatory news">>),
     recommendation |-> Str("Hold."),
     confidence |-> Num(85),
     timestamp |-> Str("2025-11-02T01:00:00.000Z")]

\* reportData as GET builds it from its three collaborators' values
ReportData(choice, global, nPairs) ==
    [ok |-> TRUE,
     report_id |-> Str("rpt_1730509200000_abcdef12"),
     generated_at |-> Str("2025-11-02T01:00:00.000Z"),
     format |-> "markdown",
     data |-> [market_overview |->
                  [global |-> GlobalSamples[global],
                   top_cryptos |-> [i \in 1..Len(choice) |-> CryptoSamples[choice[i]]]],
               trading_summary |->
                  [pairs |-> [i \in 1..nPairs |-> PairSamples[((i - 1) % 3) + 1]]],
               ai_insights |-> InsightSample],
     meta |-> [version |-> Str("2.0"),
               data_sources |-> <<"CoinMarketCap", "Binance", "OpenAI">>,
               generation_duration_ms |-> Num(1234)]]

\* the fields a collaborator's value may lack: those of the insight (the
\* completion is parsed as is), of the global metrics, of the first item
\* and of the last pair
OptionalFields ==
    {<<"none", "none">>}
    \cup {<<"ai_insights", f>> : f \in {"summary", "sentiment", "key_points",
             "opportunities", "risks", "recommendation", "confidence"}}
    \cup {<<"global", f>> : f \in {"total_market_cap", "total_volume_24h",
             "btc_dominance", "eth_dominance", "active_cryptocurrencies",
             "active_exchanges"}}
    \cup {<<"crypto", f>> : f \in {"rank", "name", "symbol", "price",
             "percent_change_24h", "percent_change_7d", "market_cap"}}
    \cup {<<"pair", f>> : f \in {"symbol", "price", "priceChangePercent24h",
             "quoteVolume24h"}}

\* data with one field undefined
Without(data, missing) ==
    LET f == missing[2]
        cryptos == data.data.market_overview.top_cryptos
        pairs == data.data.trading_summary.pairs
    IN  IF missing[1] = "ai_insights"
        THEN [data EXCEPT !.data.ai_insights[f] = Undefined]
        ELSE IF missing[1] = "global"
        THEN [data EXCEPT !.data.market_overview.global[f] = Undefined]
        ELSE IF missing[1] = "crypto" /\ cryptos # <<>>
        THEN [data EXCEPT !.data.market_overview.top_cryptos[1][f] = Undefined]
        ELSE IF missing[1] = "pair" /\ pairs # <<>>
        THEN [data EXCEPT !.data.trading_summary.pairs[Len(pairs)][f] = Undefined]
        ELSE data

\* a call of generateMarkdownReport
generateMarkdownReport_Call(data) ==
    /\ rp_pc = "idle"
    /\ rp_input' = data
    /\ rp_result' = generateMarkdownReport(data)
    /\ rp_pc' = IF rp_result'.threw THEN "threw" ELSE "rendered"

ReportNext ==
    \E n \in 0..MaxRows : \E choice \in [1..n -> 1..5] :
        \E global \in 1..2, nPairs \in {0, MaxPairs} \cap 0..10, missing \in OptionalFields :
            generateMarkdownReport_Call(
                Without(ReportData(choice, global, nPairs), missing))

(***************************************************************************)
(* Route handlers: the GET functions of /api/crypto/summary,               *)
(* /api/crypto/market, /api/crypto/trading, /api/finance/portfolio,        *)
(* /api/domains/opportunities, /api/business/tracker, /api/ai/insights and *)
(* /api/reports/generate.  Each is a try block that awaits its             *)
(* collaborators in stages and a catch block that answers with a failure   *)
(* object.                                                                 *)
(***************************************************************************)

Routes == {"crypto_summary", "crypto_market", "crypto_trading", "finance_portfolio",
           "domains_opportunities", "business_tracker", "ai_insights",
           "reports_generate"}

\* a thrown Error object and a thrown value that is not an Error
JsError(message) == [t |-> "Error", message |-> message]
NonError == [t |-> "str", v |-> "aborted"]

\* a report handler that starts the insight producer together with the
\* trading summary, as soon as the market overview is there
Stages_InsightsEarly(route) ==
    CASE route = "crypto_summary" -> << <<"getCryptoSummary">> >>
      [] route = "crypto_market" -> << <<"getCMCMarketOverview">> >>
      [] route = "crypto_trading" -> << <<"getCryptoTradingSummary">> >>
      [] route = "finance_portfolio" -> << <<"getFinancePortfolio">> >>
      [] route = "domains_opportunities" -> << <<"getDomainOpportunities">> >>
      [] route = "business_tracker" -> << <<"getBusinessOpportunities">> >>
      [] route = "ai_insights" ->
            << <<"getCMCMarketOverview">>,
               <<"generateMarketInsights", "generateMarketAlerts">> >>
      [] route = "reports_generate" ->
            << <<"getCMCMarketOverview">>,
               <<"getCryptoTradingSummary", "generateMarketInsights">> >>

\* the collaborators a handler awaits, stage by stage; the collaborators of
\* one stage are awaited together (Promise.all)
Stages(route) ==
    CASE route = "crypto_summary" -> << <<"getCryptoSummary">> >>
      [] route = "crypto_market" -> << <<"getCMCMarketOverview">> >>
      [] route = "crypto_trading" -> << <<"getCryptoTradingSummary">> >>
      [] route = "finance_portfolio" -> << <<"getFinancePortfolio">> >>
      [] route = "domains_opportunities" -> << <<"getDomainOpportunities">> >>
      [] route = "business_tracker" -> << <<"getBusinessOpportunities">> >>
      [] route = "ai_insights" ->
            << <<"getCMCMarketOverview">>,
               <<"generateMarketInsights", "generateMarketAlerts">> >>
      [] route = "reports_generate" ->
            << <<"getCMCMarketOverview", "getCryptoTradingSummary">>,
               <<"generateMarketInsights">> >>

\* what a collaborator may throw: the four that wrap their failures always
\* throw a new Error; the others rethrow what they caught
ThrownBy(collaborator) ==
    CASE collaborator = "getCryptoSummary" ->
            {JsError("Failed to fetch crypto summary: CoinGecko API error: 429"),
             JsError("Failed to fetch crypto summary: CoinGecko API error: 500"),
             JsError("Failed to fetch crypto summary: fetch failed"),
             JsError("Failed to fetch crypto summary: undefined")}
      [] collaborator = "getFinancePortfolio" ->
            {JsError("Failed to fetch finance portfolio: fetch failed"),
             JsError("Failed to fetch finance portfolio: undefined")}
      [] collaborator = "getDomainOpportunities" ->
            {JsError("Failed to fetch domain opportunities: undefined")}
      [] collaborator = "getBusinessOpportunities" ->
            {JsError("Failed to fetch business opportunities: undefined")}
      [] collaborator = "getCMCMarketOverview" ->
            {JsError("CoinMarketCap API error: 401"),
             JsError("CoinMarketCap API error: 429"),
             JsError("CoinMarketCap API error: 500"),
             JsError("Cannot read properties of undefined (reading 'price')"),
             NonError}
      [] collaborator = "getCryptoTradingSummary" ->
            {JsError("Binance API error: 429"), JsError("Binance API error: 500"),
             JsError("fetch failed"), NonError}
      [] collaborator = "generateMarketInsights" ->
            {JsError("No content in OpenAI response"),
             JsError("Unexpected end of JSON input"),
             JsError("429 Rate limit reached"), NonError}
      [] collaborator = "generateMarketAlerts" -> {}

\* what a collaborator may resolve with
ResolvedBy(collaborator) ==
    IF collaborator = "generateMarketInsights"
    THEN {InsightSample, [InsightSample EXCEPT !.sentiment = Undefined]}
    ELSE {[ok |-> TRUE, from |-> collaborator]}

\* the ways a collaborator's promise settles
Outcomes(collaborator) ==
    {Fulfilled(v) : v \in ResolvedBy(collaborator)}
        \cup {Rejected(e) : e \in ThrownBy(collaborator)}

\* the `error` member of a handler's failure object
ErrorKind(route) ==
    CASE route = "crypto_summary" -> "crypto_fetch_failed"
      [] route = "crypto_market" -> "Failed to fetch crypto market data"
      [] route = "crypto_trading" -> "Failed to fetch crypto trading data"
      [] route = "finance_portfolio" -> "finance_fetch_failed"
      [] route = "domains_opportunities" -> "domains_fetch_failed"
      [] route = "business_tracker" -> "business_fetch_failed"
      [] route = "ai_insights" -> "Failed to generate AI insights"
      [] route = "reports_generate" -> "Failed to generate report"

\* the handlers whose catch block tests `error instanceof Error`; the
\* others read (error as Error).message
TestsInstanceOf(route) ==
    route \in {"crypto_market", "crypto_trading", "ai_insights", "reports_generate"}

\* a catch block that reads error.message whatever was thrown
ErrorMessage_Cast(route, error) ==
    IF error.t = "Error" THEN Str(error.message) ELSE Undefined

\* the `message` member of a handler's failure object
ErrorMessage(route, error) ==
    IF TestsInstanceOf(route)
    THEN IF error.t = "Error" THEN Str(error.message) ELSE Str("Unknown error")
    ELSE IF error.t = "Error" THEN Str(error.message) ELSE Undefined

\* the response of a catch block
FailureResponse(request, error) ==
    [status |-> 500,
     requestId |-> request.requestId,
     body |-> [ok |-> FALSE,
               error |-> ErrorKind(request.route),
               message |-> ErrorMessage(request.route, error)]]

\* the response of /api/finance/portfolio when ALPHAVANTAGE_API_KEY is unset
ApiKeyNotConfigured(request) ==
    [status |-> 500,
     requestId |-> request.requestId,
     body |-> [ok |-> FALSE,
               error |-> "api_key_not_configured",
               message |-> Str("AlphaVantage API key is required. Set ALPHAVANTAGE_API_KEY environment variable.")]]

\* the response at the end of a try block: the JSON payload, or for
\* /api/reports/generate?format=markdown the rendered document; a TypeError
\* thrown by the renderer is caught by the handler's catch block
SuccessResponse(request, values) ==
    IF request.route = "reports_generate" /\ request.format = "markdown"
    THEN LET reportData == [ReportData(<<1>>, 1, 1) EXCEPT
                               !.data.ai_insights = values[Len(values)]]
             markdown == generateMarkdownReport(reportData)
         IN  IF markdown.threw
             THEN FailureResponse(request,
                     JsError("Cannot read properties of undefined (reading 'toUpperCase')"))
             ELSE [status |-> 200, requestId |-> request.requestId,
                   contentType |-> "text/markdown", body |-> markdown]
    ELSE [status |-> 200, requestId |-> request.requestId,
          contentType |-> "application/json",
          body |-> [ok |-> TRUE, data |-> values]]

\* Math.min(x, n) on a number-or-NaN value: NaN when x is NaN
MathMin(x, n) == IF x.t = "num" THEN Num(IF x.v < n THEN x.v ELSE n) ELSE NaN

\* the handlers that read the `limit` parameter, and the cap each applies
ReadsLimit(route) ==
    route \in {"crypto_summary", "crypto_market", "ai_insights", "reports_generate"}

LimitCap(route) == IF route = "crypto_market" THEN 100 ELSE 50

\* `Math.min(parseInt(searchParams.get('limit') || '10'), cap)`
ParseLimit(route, rawLimit) ==
    MathMin(ParseInt(IF ParamTruthy(rawLimit) THEN rawLimit.text ELSE <<"1", "0">>),
            LimitCap(route))

\* `symbolsParam.split(",").map(s => s.trim().toUpperCase())` with the
\* default "AAPL,GOOGL,MSFT" for a missing or empty parameter
ParseSymbols(rawSymbols) ==
    LET symbolsParam == IF ParamTruthy(rawSymbols) THEN rawSymbols.text
                        ELSE <<"A", "A", "P", "L", ",", "G", "O", "O", "G", "L", ",",
                               "M", "S", "F", "T">>
        pieces == SplitCommas(symbolsParam)
    IN  [i \in 1..Len(pieces) |-> ToUpperCase(Trim(pieces[i]))]

\* the values of the symbols parameter explored
RawSymbols == {NoParam, Param(<<"t", "s", "l", "a">>),
               Param(<<"a", ",", " ", "b", ",">>)}

\* `if (!apiKey)`: the handler answers before calling getFinancePortfolio
AnswersWithoutFetch_Never(request) == FALSE

AnswersWithoutFetch(request) ==
    request.route = "finance_portfolio" /\ ~request.hasApiKey

\* the calls a handler makes when it reaches a stage: the collaborators of
\* the stage, all called before the await
CallsOf(route, stage) == Stages(route)[stage]

\* the values of the limit parameter explored
RawLimits == {NoParam, Param(<<"5">>), Param(<<"7", "5">>), Param(<<"a", "b", "c">>)}

\* the requests explored, as the handler holds them after parsing: the
\* four handlers that read x-request-id take the header's value when
\* present, the others draw a UUID
Requests ==
    {[route |-> r, format |-> f, requestId |-> id, hasApiKey |-> k,
      limit |-> IF ReadsLimit(r) THEN ParseLimit(r, l) ELSE Undefined,
      symbols |-> IF r = "finance_portfolio" THEN ParseSymbols(sym) ELSE <<>>] :
        r \in Routes, f \in {"json", "markdown"},
        id \in {"req_generated", "req_from_header"}, k \in BOOLEAN,
        l \in RawLimits, sym \in RawSymbols}

\* format matters to /api/reports/generate only, the API key to
\* /api/finance/portfolio only
RequestIsDistinct(request) ==
    /\ request.format = "markdown" => request.route = "reports_generate"
    /\ request.requestId = "req_from_header" => ~TestsInstanceOf(request.route)
    /\ ~request.hasApiKey => request.route = "finance_portfolio"

\* GET is entered: the handler parses the request and suspends at its
\* first await, or answers at once when the AlphaVantage key is missing
Route_GET(request) ==
    /\ rt_pc = "idle"
    /\ RequestIsDistinct(request)
    /\ rt_request' = request
    /\ rt_values' = <<>>
    /\ IF AnswersWithoutFetch(request)
       THEN /\ rt_pc' = "responded"
            /\ rt_stage' = 0
            /\ rt_response' = ApiKeyNotConfigured(request)
            /\ rt_calls' = <<>>
       ELSE /\ rt_pc' = "awaiting"
            /\ rt_stage' = 1
            /\ rt_response' = [none |-> TRUE]
            /\ rt_calls' = CallsOf(request.route, 1)

\* the values the collaborators of a stage may resolve with, one per
\* collaborator
StageValues(stage) ==
    IF Len(stage) = 1
    THEN {<<v>> : v \in ResolvedBy(stage[1])}
    ELSE {<<v, w>> : v \in ResolvedBy(stage[1]), w \in ResolvedBy(stage[2])}

\* every collaborator of the awaited stage resolved: the handler moves to
\* its next await, or builds its response
Stage_Resolved ==
    /\ rt_pc = "awaiting"
    /\ \E values \in StageValues(Stages(rt_request.route)[rt_stage]) :
          /\ rt_values' = rt_values \o values
          /\ IF rt_stage < Len(Stages(rt_request.route))
             THEN /\ rt_stage' = rt_stage + 1
                  /\ rt_pc' = "awaiting"
                  /\ rt_response' = rt_response
                  /\ rt_calls' = rt_calls \o CallsOf(rt_request.route, rt_stage + 1)
             ELSE /\ rt_stage' = rt_stage
                  /\ rt_pc' = "responded"
                  /\ rt_response' = SuccessResponse(rt_request, rt_values')
                  /\ rt_calls' = rt_calls
    /\ rt_request' = rt_request

\* a collaborator of the awaited stage rejected (the first one to do so,
\* for a Promise.all): control enters the catch block
Stage_Rejected(collaborator, error) ==
    /\ rt_pc = "awaiting"
    /\ \E i \in 1..Len(Stages(rt_request.route)[rt_stage]) :
          Stages(rt_request.route)[rt_stage][i] = collaborator
    /\ error \in ThrownBy(collaborator)
    /\ rt_pc' = "responded"
    /\ rt_response' = FailureResponse(rt_request, error)
    /\ UNCHANGED <<rt_request, rt_stage, rt_values, rt_calls>>

Collaborators ==
    {"getCryptoSummary", "getFinancePortfolio", "getDomainOpportunities",
     "getBusinessOpportunities", "getCMCMarketOverview", "getCryptoTradingSummary",
     "generateMarketInsights", "generateMarketAlerts"}

RouteNext ==
    \/ \E request \in Requests : Route_GET(request)
    \/ Stage_Resolved
    \/ \E c \in Collaborators : \E error \in ThrownBy(c) : Stage_Rejected(c, error)

(***************************************************************************)
(* Dashboard: the polling loop of DashboardV2.  useEffect calls fetchData  *)
(* on mount and setInterval calls it every 60 seconds; nothing ties a call *)
(* to the ones before it.  Each fetchData awaits the two fetches together, *)
(* then the two JSON bodies one after the other, and then sets the state.  *)
(***************************************************************************)

\* the largest number of fetchData calls explored
MaxRefreshes == 3

Null == [null |-> TRUE]

\* what the server holds when refresh i is answered, tagged with the refresh
MarketOf(i) == [source |-> "/api/crypto/market?limit=10", refresh |-> i]

TradingOf(i) == [source |-> "/api/crypto/trading", refresh |-> i]

\* `err instanceof Error ? err.message : 'Unknown error'`
CaughtMessage(err) == IF err.t = "Error" THEN err.message ELSE "Unknown error"

\* the ways the two fetches end: both respond (each ok or not), or one
\* rejects (network failure)
FetchOutcomes ==
    {[kind |-> "responses", marketOk |-> m, tradingOk |-> t] : m, t \in BOOLEAN}
        \cup {[kind |-> "rejected", reason |-> JsError("Failed to fetch")]}

\* the ways response.json() ends
JsonOutcomes ==
    {[kind |-> "parsed"],
     [kind |-> "rejected", reason |-> JsError("Unexpected token < in JSON")]}

\* useEffect runs on mount: fetchData() and setInterval(fetchData, 60000);
\* fetchData runs to its first await: setLoading(true), both fetches issued
DashboardV2_Mount ==
    /\ db_phase = "initial"
    /\ db_phase' = "mounted"
    /\ refreshes' = <<[stage |-> "fetching"]>>
    /\ db_loading' = TRUE
    /\ UNCHANGED <<db_marketData, db_tradingData, db_error>>

\* the interval fires: fetchData is called again, whatever the earlier calls
\* are doing
fetchData_IntervalFires ==
    /\ db_phase = "mounted"
    /\ Len(refreshes) < MaxRefreshes
    /\ refreshes' = Append(refreshes, [stage |-> "fetching"])
    /\ db_loading' = TRUE
    /\ UNCHANGED <<db_phase, db_marketData, db_tradingData, db_error>>

\* catch and finally of refresh i: setError(message); setLoading(false)
Fails(i, err) ==
    /\ refreshes' = [refreshes EXCEPT ![i] = [stage |-> "failed",
                                              message |-> CaughtMessage(err)]]
    /\ db_error' = [message |-> CaughtMessage(err), refresh |-> i]
    /\ db_loading' = FALSE
    /\ UNCHANGED <<db_phase, db_marketData, db_tradingData>>

\* Promise.all of the two fetches of refresh i settles: on two ok responses
\* the refresh goes on to read the market body, otherwise it fails
fetchData_FetchesSettle(i, outcome) ==
    /\ db_phase = "mounted"
    /\ i \in 1..Len(refreshes)
    /\ refreshes[i].stage = "fetching"
    /\ IF outcome.kind = "rejected"
       THEN Fails(i, outcome.reason)
       ELSE IF ~outcome.marketOk \/ ~outcome.tradingOk
       THEN Fails(i, JsError("Failed to fetch data"))
       ELSE /\ refreshes' = [refreshes EXCEPT ![i] = [stage |-> "market_json"]]
            /\ UNCHANGED <<db_phase, db_marketData, db_tradingData, db_loading, db_error>>

\* `await marketRes.json()` of refresh i settles
fetchData_MarketJson(i, outcome) ==
    /\ db_phase = "mounted"
    /\ i \in 1..Len(refreshes)
    /\ refreshes[i].stage = "market_json"
    /\ IF outcome.kind = "rejected"
       THEN Fails(i, outcome.reason)
       ELSE /\ refreshes' = [refreshes EXCEPT ![i] = [stage |-> "trading_json"]]
            /\ UNCHANGED <<db_phase, db_marketData, db_tradingData, db_loading, db_error>>

\* `await tradingRes.json()` of refresh i settles: on success
\* setMarketData(market); setTradingData(trading); setError(null); and
\* finally setLoading(false)
fetchData_TradingJson(i, outcome) ==
    /\ db_phase = "mounted"
    /\ i \in 1..Len(refreshes)
    /\ refreshes[i].stage = "trading_json"
    /\ IF outcome.kind = "rejected"
       THEN Fails(i, outcome.reason)
       ELSE /\ refreshes' = [refreshes EXCEPT ![i] = [stage |-> "succeeded"]]
            /\ db_marketData' = MarketOf(i)
            /\ db_tradingData' = TradingOf(i)
            /\ db_error' = Null
            /\ db_loading' = FALSE
            /\ UNCHANGED db_phase

\* the cleanup of useEffect: clearInterval(interval); the component is gone
\* and what it displayed with it
DashboardV2_Unmount ==
    /\ db_phase = "mounted"
    /\ db_phase' = "unmounted"
    /\ UNCHANGED <<refreshes, db_marketData, db_tradingData, db_loading, db_error>>

DashboardNext ==
    \/ DashboardV2_Mount
    \/ fetchData_IntervalFires
    \/ \E i \in 1..MaxRefreshes : \E outcome \in FetchOutcomes :
          fetchData_FetchesSettle(i, outcome)
    \/ \E i \in 1..MaxRefreshes : \E outcome \in JsonOutcomes :
          fetchData_MarketJson(i, outcome)
    \/ \E i \in 1..MaxRefreshes : \E outcome \in JsonOutcomes :
          fetchData_TradingJson(i, outcome)
    \/ DashboardV2_Unmount

(***************************************************************************)
(* Claims about the chunked fetcher.                                       *)
(***************************************************************************)

SymbolsOf(recs) == [i \in 1..Len(recs) |-> recs[i].symbol]

PoolSet == {SymbolPool[i] : i \in 1..Len(SymbolPool)}

\* the positions of the input whose request was rejected
FailedPositions == {i \in 1..Len(settled) : settled[i].status = "rejected"}

\* the failure list of a result: its `failures` field, if it has one
ResultFailures(r) == IF "failures" \in DOMAIN r THEN r.failures ELSE <<>>

\* C1: when getFinancePortfolio has returned, the number of quotes in
\* `stocks` plus the number of symbols logged as failed equals the number of
\* input symbols, and every symbol is accounted for exactly as often as it
\* occurs in the input: nothing is duplicated, nothing is lost.
C1_EveryUnitAccountedOnce ==
    fp_pc \in {"done", "thrown"} =>
        /\ fp_pc = "done"
        /\ Len(fp_result.stocks) + Len(errlog) = Len(symbols)
        /\ \A s \in PoolSet :
             Count(SymbolsOf(fp_result.stocks), s) + Count(SymbolsOf(errlog), s)
                = Count(symbols, s)

\* C1 witness: a run over two chunks (7 symbols, one of them twice) with
\* successes and failures in both chunks has returned
C1_Witness ==
    /\ fp_pc = "done"
    /\ Len(symbols) = 7
    /\ \E i \in 1..5, j \in 1..5, k \in 6..7, l \in 6..7 :
         /\ settled[i].status = "rejected" /\ settled[j].status = "fulfilled"
         /\ settled[k].status = "rejected" /\ settled[l].status = "fulfilled"

\* C2 as stated: the result carries a list of (symbol, failure reason) pairs
\* with one entry for each input symbol whose request failed.
C2_ResultCarriesFailures ==
    fp_pc = "done" =>
        \A i \in FailedPositions :
            \E k \in 1..Len(ResultFailures(fp_result)) :
                /\ ResultFailures(fp_result)[k].symbol = symbols[i]
                /\ ResultFailures(fp_result)[k].reason = settled[i].reason

\* the (symbol, reason) pairs of the failed inputs, in input order
RECURSIVE FailurePairsFrom(_)
FailurePairsFrom(i) ==
    IF i > Len(settled) THEN <<>>
    ELSE (IF settled[i].status = "rejected"
          THEN <<[symbol |-> symbols[i], reason |-> settled[i].reason]>>
          ELSE <<>>) \o FailurePairsFrom(i + 1)

\* C2 amended: the failures are not part of the result; separately from the
\* list of successful quotes, one (symbol, failure reason) pair is written to
\* the error log for each input symbol whose request failed, in input order,
\* and the result holds the successful quotes only.
C2_FailuresLoggedNotReturned ==
    fp_pc = "done" =>
        /\ errlog = FailurePairsFrom(1)
        /\ DOMAIN fp_result = {"ok", "currency", "total_value", "stocks", "meta"}
        /\ \A k \in 1..Len(fp_result.stocks) :
             \E i \in 1..Len(settled) :
                /\ settled[i].status = "fulfilled"
                /\ settled[i].value = fp_result.stocks[k]

\* C2 witness: a returned run in which a symbol other than the first of its
\* chunk failed, in each of two chunks
C2_Witness ==
    /\ fp_pc = "done"
    /\ Len(symbols) = 7
    /\ settled[3].status = "rejected"
    /\ settled[7].status = "rejected"
    /\ settled[1].status = "fulfilled"

\* C3: getFinancePortfolio never throws because of unit failures: whatever
\* subset of the symbols fails it returns ok = true, and when no symbol
\* succeeded the result has an empty stocks list, meta.count = 0 and
\* total_value = 0.
C3_NeverThrowsOnUnitFailures ==
    /\ fp_pc # "thrown"
    /\ fp_pc = "done" =>
          /\ fp_result.ok = TRUE
          /\ (\A i \in 1..Len(settled) : settled[i].status = "rejected") =>
                /\ fp_result.stocks = <<>>
                /\ fp_result.meta.count = 0
                /\ fp_result.total_value = 0

\* C3 witness: every request of a two-chunk run failed and the call returned
C3_Witness ==
    /\ fp_pc = "done"
    /\ Len(symbols) = 7
    /\ Len(settled) = 7
    /\ \A i \in 1..7 : settled[i].status = "rejected"

\* the getStockQuote requests issued and not yet settled
InFlight == Cardinality({i \in 1..Len(promises) : promises[i] = Pending})

\* C22: at every moment during getFinancePortfolio at most 5 getStockQuote
\* requests are in flight (issued and not yet settled), for every number of
\* input symbols and every completion timing; every request issued so far
\* is either settled or one of the current group's.
C22_AtMostFiveInFlight ==
    /\ InFlight <= 5
    /\ fp_pc = "awaiting" =>
          Len(requested) = Len(settled) + Len(promises)
    /\ fp_pc \in {"delay", "done"} =>
          /\ InFlight = 0
          /\ Len(requested) = Len(settled)

\* C22 witness: with 7 input symbols, 5 requests are in flight at once
C22_Witness ==
    /\ fp_pc = "awaiting"
    /\ Len(symbols) = 7
    /\ InFlight = 5

\* C23: within one group all requests are issued together and the fetcher
\* proceeds only once every request of the group has settled; a request
\* that fails does not cancel or skip any sibling of its group nor any
\* symbol of a later group: the requests issued are the input symbols up to
\* the end of the current group, each exactly once, and when the call has
\* returned every input symbol has been requested once and has settled.
C23_GroupSettlesBeforeProceeding ==
    /\ \A i \in 1..Len(settled) : settled[i] # Pending
    /\ fp_pc \in {"awaiting", "delay", "done"} =>
          /\ Len(requested) <= Len(symbols)
          /\ requested = SubSeq(symbols, 1, Len(requested))
          /\ chunkIdx > 0 =>
                Len(requested) = (chunkIdx - 1) * 5 + Len(chunks[chunkIdx])
    /\ fp_pc = "awaiting" => Len(promises) = Len(chunks[chunkIdx])
    /\ fp_pc = "done" =>
          /\ requested = symbols
          /\ Len(settled) = Len(symbols)

\* C23 witness: the first request of the first group and the first request
\* of the second group failed, and the call returned having requested all 7
\* symbols
C23_Witness ==
    /\ fp_pc = "done"
    /\ Len(symbols) = 7
    /\ settled[1].status = "rejected"
    /\ settled[6].status = "rejected"
    /\ settled[2].status = "fulfilled"
    /\ requested = symbols

\* ceil(n / 5)
CeilFifth(n) == (n + 4) \div 5

\* the chunks laid end to end
RECURSIVE Flatten(_)
Flatten(seqs) == IF seqs = <<>> THEN <<>> ELSE Head(seqs) \o Flatten(Tail(seqs))

\* C24: for N input symbols getFinancePortfolio executes exactly ceil(N/5)
\* groups of consecutive symbols and exactly max(0, ceil(N/5) - 1)
\* inter-group delays: one delay lies between the settling of each group
\* and the first request of the next, and no delay follows the last group;
\* with 7 symbols of which only the third fails there are 2 groups, 1 delay,
\* 6 successes and 1 failure.
C24_GroupsAndDelays ==
    /\ fp_pc \in {"awaiting", "delay", "done"} =>
          /\ Len(chunks) = CeilFifth(Len(symbols))
          /\ Flatten(chunks) = symbols
          /\ \A k \in 1..Len(chunks) :
                Len(chunks[k]) = IF k < Len(chunks) THEN 5
                                 ELSE Len(symbols) - 5 * (Len(chunks) - 1)
    /\ fp_pc = "awaiting" => delays = chunkIdx - 1
    /\ fp_pc = "delay" => delays = chunkIdx /\ chunkIdx < Len(chunks)
    /\ fp_pc = "done" =>
          /\ chunkIdx = CeilFifth(Len(symbols))
          /\ delays = IF CeilFifth(Len(symbols)) = 0 THEN 0
                      ELSE CeilFifth(Len(symbols)) - 1
          /\ (/\ Len(symbols) = 7
              /\ \A i \in 1..7 : (settled[i].status = "rejected") <=> (i = 3))
                => /\ chunkIdx = 2
                   /\ delays = 1
                   /\ Len(fp_result.stocks) = 6
                   /\ Len(errlog) = 1

\* C24 witness: 7 symbols, only the third failed, the call returned
C24_Witness ==
    /\ fp_pc = "done"
    /\ Len(symbols) = 7
    /\ \A i \in 1..7 : (settled[i].status = "rejected") <=> (i = 3)

\* the quotes of the fulfilled requests, by input position
QuotesInInputOrder ==
    LET ok == SelectSeq(settled, IsFulfilled)
    IN  [i \in 1..Len(ok) |-> ok[i].value]

\* C28: the `stocks` list returned by getFinancePortfolio lists the
\* successful quotes in the order of their symbols in the input list (group
\* by group, and in input order within a group), whatever order the
\* requests of a group complete in.
C28_StocksInInputOrder ==
    fp_pc = "done" =>
        /\ fp_result.stocks = QuotesInInputOrder
        /\ \E pos \in [1..Len(fp_result.stocks) -> 1..Len(symbols)] :
              /\ \A k \in 1..Len(fp_result.stocks) :
                    fp_result.stocks[k].symbol = symbols[pos[k]]
              /\ \A k \in 1..(Len(fp_result.stocks) - 1) : pos[k] < pos[k + 1]

\* C28 witness: a request completed before an earlier request of its group,
\* and the call returned quotes from both groups
C28_Witness ==
    /\ fp_pc = "done"
    /\ overtaken
    /\ Len(symbols) = 7
    /\ settled[1].status = "fulfilled"
    /\ settled[2].status = "fulfilled"
    /\ settled[7].status = "fulfilled"


\* C25: every external provider call is bounded by a timeout: a
\* getStockQuote call whose provider never responds is turned into a unit
\* failure of that symbol, so getFinancePortfolio, once it awaits a group of
\* requests, eventually returns even when some provider call never settles
\* on its own.
C25_EventuallyReturns ==
    (fp_pc = "awaiting") ~> (fp_pc \in {"done", "thrown"})

(***************************************************************************)
(* Claims about the aggregators.                                           *)
(***************************************************************************)

NoResult == [none |-> TRUE]

\* C4: without a CoinMarketCap credential getCMCMarketOverview makes no
\* network call and never fails: for every limit and every currency code it
\* returns a success snapshot built from the fallback data set.
C4_FallbackNeverFails ==
    (agg_fn = "cmc" /\ ~CMC_API_KEY) =>
        /\ fetches = 0
        /\ agg_pc # "failed"
        /\ agg_pc = "returned" =>
              /\ agg_result.ok = TRUE
              /\ agg_result.meta.count = Len(getMockCMCData(agg_limit))

\* C5: an aggregator returns a snapshot only when both of its sub-calls
\* succeeded; if either sub-call fails no snapshot, not even a partial one,
\* is returned and exactly one failure is propagated to the caller, also
\* when both sub-calls fail.
C5_SnapshotOnlyIfBothSucceed ==
    /\ Len(agg_thrown) <= 1
    /\ agg_pc = "returned" =>
          /\ \A w \in SubCalls : sub[w].status = "fulfilled"
          /\ agg_thrown = <<>>
          /\ agg_result.ok = TRUE
    /\ agg_pc = "failed" =>
          /\ agg_result = NoResult
          /\ Len(agg_thrown) = 1
    /\ (\E w \in SubCalls : sub[w].status = "rejected") =>
          /\ agg_pc \in {"awaiting", "failed"}
          /\ agg_result = NoResult

\* C5 witness: both sub-calls of an aggregator failed and the aggregator
\* has thrown
C5_Witness ==
    /\ agg_pc = "failed"
    /\ \A w \in SubCalls : sub[w].status = "rejected"
    /\ Len(agg_thrown) = 1

\* the sub-call whose rejection settled Promise.all
FirstRejected == RejectedIn(sub, settleOrder)[1]

MonetaryFigures(r) ==
    IF "top_cryptos" \in DOMAIN r
    THEN {r.global.total_market_cap, r.global.total_volume_24h}
         \cup {r.top_cryptos[i].price : i \in 1..Len(r.top_cryptos)}
         \cup {r.top_cryptos[i].market_cap : i \in 1..Len(r.top_cryptos)}
         \cup {r.top_cryptos[i].volume_24h : i \in 1..Len(r.top_cryptos)}
    ELSE {r.total_market_cap, r.total_volume}
         \cup {r.coins[i].current_price : i \in 1..Len(r.coins)}
         \cup {r.coins[i].market_cap : i \in 1..Len(r.coins)}
         \cup {r.coins[i].total_volume : i \in 1..Len(r.coins)}

\* C7: every snapshot an aggregator returns declares one currency code and
\* all of its monetary figures are in that currency; with figures in
\* different currencies the aggregator fails instead of returning a snapshot.
\* Stated for getCryptoSummary, as the claim does in particular: for every
\* requested currency the coin prices, total_market_cap and total_volume of
\* its result are all in the declared `currency` (a literal 0 fits any).
C7_SummaryInDeclaredCurrency ==
    (agg_pc = "returned" /\ agg_fn = "coingecko") =>
        \A m \in MonetaryFigures(agg_result) :
            m.cur \in {agg_result.currency, "none"}

\* C26: the two sub-calls of an aggregator (getCMCMarketOverview,
\* getCryptoSummary) are both issued before either one is awaited and
\* neither waits on the other: from the call on both promises exist and
\* both requests have been sent; when both succeed the assembled snapshot is
\* the same whichever sub-call completed first: the global fields come from
\* the global-metrics result and the items from the listings result.
C26_SubCallsIndependent ==
    /\ agg_pc \in {"awaiting", "returned", "failed"} =>
          /\ \A w \in SubCalls : sub[w].status \in {"pending", "fulfilled", "rejected"}
          /\ fetches = FetchesIssued(agg_fn, CMC_API_KEY)
    /\ agg_pc = "returned" =>
          /\ \A w \in SubCalls : sub[w].status = "fulfilled"
          /\ IF agg_fn = "cmc"
             THEN /\ agg_result.global.total_market_cap
                        = sub.global.value.total_market_cap
                  /\ agg_result.global.total_volume_24h
                        = sub.global.value.total_volume_24h
                  /\ agg_result.global.btc_dominance = sub.global.value.btc_dominance
                  /\ agg_result.global.eth_dominance = sub.global.value.eth_dominance
                  /\ Len(agg_result.top_cryptos) = Len(sub.listings.value)
                  /\ \A i \in 1..Len(sub.listings.value) :
                        /\ agg_result.top_cryptos[i].name = sub.listings.value[i].name
                        /\ agg_result.top_cryptos[i].rank = sub.listings.value[i].cmc_rank
                        /\ agg_result.top_cryptos[i].price
                              = sub.listings.value[i].quote[agg_currency].price
             ELSE /\ agg_result.total_market_cap = sub.global.value.total_market_cap
                  /\ agg_result.total_volume = sub.global.value.total_volume
                  /\ agg_result.coins = sub.listings.value

\* C26 witness: the global-metrics sub-call, second in the array, completed
\* first, the listings sub-call after it, and the snapshot was returned
C26_Witness ==
    /\ agg_pc = "returned"
    /\ settleOrder = <<"global", "listings">>
    /\ agg_fn = "cmc"
    /\ Len(agg_result.top_cryptos) >= 2

(***************************************************************************)
(* Claims about the filter / rank engine.                                  *)
(***************************************************************************)

IdsOf(opps) == {opps[i].id : i \in 1..Len(opps)}

\* C8: for every combination of category, maxPrice and minRevenue supplied
\* to the business tracker (each present or absent, numeric values
\* including 0) the returned opportunities are exactly the candidates that
\* satisfy every supplied predicate: category equal to the requested one,
\* price <= maxPrice, monthly_revenue >= minRevenue.
C8_ExactlyTheSatisfyingCandidates ==
    eng_pc = "business" =>
        LET q == eng_query
            all == mockBusinessOpportunities
            expected ==
                {i \in 1..Len(all) :
                    /\ q.category.t = "str" => all[i].category = q.category.v
                    /\ q.maxPrice.t = "num" => all[i].price <= q.maxPrice.v
                    /\ q.minRevenue.t = "num" =>
                          all[i].monthly_revenue >= q.minRevenue.v}
        IN  /\ IdsOf(eng_result.opportunities) = {all[i].id : i \in expected}
            /\ Len(eng_result.opportunities) = Cardinality(expected)

\* two characters that are the same letter, whatever their case
SameLetter(a, b) ==
    \/ a = b
    \/ \E k \in 1..26 : {a, b} = {LowerLetters[k], UpperLetters[k]}

\* kw occurs in name as a substring, compared case-insensitively
ContainsIgnoringCase(name, kw) ==
    \E i \in 0..(Len(name) - Len(kw)) :
        \A j \in 1..Len(kw) : SameLetter(name[i + j], kw[j])

RankedInput ==
    IF eng_pc \in {"rank_business", "rank_domains"} THEN eng_query
    ELSE IF eng_pc = "business" THEN mockBusinessOpportunities
    ELSE mockDomainOpportunities

RankedByScore == eng_pc \in {"rank_business", "business"}

RankKey(opp) ==
    IF RankedByScore THEN opp.score
    ELSE IF "roi_score" \in DOMAIN opp THEN opp.roi_score ELSE 0

\* the name a record is known by in input and output
RankName(opp) == IF "id" \in DOMAIN opp THEN opp.id ELSE opp.domain

\* the position in the input list of the record with a name
InputPosition(name) ==
    CHOOSE i \in 1..Len(RankedInput) : RankName(RankedInput[i]) = name

\* C10: the opportunities returned by getBusinessOpportunities (ranked by
\* score) and by getDomainOpportunities (ranked by roi_score, a missing
\* roi_score counting as 0) are in descending score order and items with
\* equal scores keep their relative order from the input list; the ranking
\* is a function of the input list (it reorders the records it is given and
\* nothing else decides the order).
C10_DescendingAndStable ==
    eng_pc # "idle" =>
        LET out == IF eng_pc \in {"rank_business", "rank_domains"} THEN eng_result
                   ELSE eng_result.opportunities
        IN  /\ \A a \in 1..Len(out) :
                 \E i \in 1..Len(RankedInput) :
                    RankName(RankedInput[i]) = RankName(out[a])
            /\ \A a, b \in 1..Len(out) :
                 a < b =>
                    /\ RankKey(out[a]) >= RankKey(out[b])
                    /\ RankKey(out[a]) = RankKey(out[b]) =>
                          InputPosition(RankName(out[a])) < InputPosition(RankName(out[b]))
            /\ eng_pc \in {"rank_business", "rank_domains"} =>
                  /\ Len(out) = Len(RankedInput)
                  /\ \A a \in 1..Len(out) : out[a] = RankedInput[out[a].id]

\* C10 witness: the sort step ranked a list in which two records with equal
\* keys are separated by, and follow, a record with a smaller key, one of
\* the equal keys being a missing roi_score
C10_Witness ==
    /\ eng_pc = "rank_domains"
    /\ Len(eng_query) = 4
    /\ "roi_score" \notin DOMAIN eng_query[2]
    /\ "roi_score" \in DOMAIN eng_query[4]
    /\ RankKey(eng_query[1]) > 0
    /\ RankKey(eng_query[3]) > 0
    /\ RankKey(eng_query[4]) = 0
    /\ eng_result[3].id = 2
    /\ eng_result[4].id = 4

\* the sum of a numeric field over the first k records of a list
RECURSIVE PriceTotalUpTo(_, _)
PriceTotalUpTo(opps, k) ==
    IF k = 0 THEN 0 ELSE opps[k].price + PriceTotalUpTo(opps, k - 1)

RECURSIVE MultipleTotalUpTo(_, _)
MultipleTotalUpTo(opps, k) ==
    IF k = 0 THEN 0 ELSE opps[k].multiple + MultipleTotalUpTo(opps, k - 1)

\* C11: for every filter combination, meta.total_value is the exact sum of
\* price over the returned opportunities and meta.count is their number;
\* when nothing passes the filter both are 0.  Both for
\* getBusinessOpportunities and for getDomainOpportunities.
C11_TotalAndCountOfReturned ==
    eng_pc \in {"business", "domains"} =>
        LET out == eng_result.opportunities
        IN  /\ eng_result.meta.count = Len(out)
            /\ eng_result.meta.total_value = PriceTotalUpTo(out, Len(out))
            /\ out = <<>> =>
                  eng_result.meta.total_value = 0 /\ eng_result.meta.count = 0

\* C11 witness: a business tracker request whose filters, all three
\* supplied, let no candidate pass
C11_Witness ==
    /\ eng_pc = "business"
    /\ eng_query.category.t = "str"
    /\ eng_query.maxPrice.t = "num"
    /\ eng_query.minRevenue.t = "num"
    /\ eng_result.opportunities = <<>>
    /\ eng_result.meta.total_value = 0
    /\ eng_result.meta.count = 0

\* C12: meta.avg_multiple of a getBusinessOpportunities result is the mean
\* of multiple over the returned opportunities rounded to one decimal
\* place, halves up, and is 0 when the returned set is empty.  In tenths:
\* avg is the integer r with r - 1/2 <= sum / n < r + 1/2.
C12_AvgMultipleRoundHalfUp ==
    eng_pc = "business" =>
        LET out == eng_result.opportunities
            n == Len(out)
            total == MultipleTotalUpTo(out, n)
            r == eng_result.meta.avg_multiple
        IN  IF n = 0 THEN r = 0
            ELSE /\ (2 * r - 1) * n <= 2 * total
                 /\ 2 * total < (2 * r + 1) * n

\* C12 witness: two opportunities were returned whose mean multiple lies
\* exactly half way between two tenths, and the larger one was reported
C12_Witness ==
    /\ eng_pc = "business"
    /\ Len(eng_result.opportunities) = 2
    /\ LET total == MultipleTotalUpTo(eng_result.opportunities, 2)
       IN  /\ total % 2 = 1
           /\ 2 * eng_result.meta.avg_multiple = total + 1

\* the documented request of the business tracker:
\* category=saas&maxPrice=50000&minRevenue=1000
ReadmeBusinessRequest ==
    /\ eng_pc = "business"
    /\ eng_query.category = [t |-> "str", v |-> "saas"]
    /\ eng_query.maxPrice = Num(50000)
    /\ eng_query.minRevenue = Num(1000)

ReadmeDomainsRequest ==
    /\ eng_pc = "domains"
    /\ eng_query.keywords = << <<"f", "i", "n", "a", "n", "c", "e">>,
                               <<"c", "r", "y", "p", "t", "o">> >>
    /\ eng_query.maxPrice = Num(1000)

AlertsNaming(name) ==
    SelectSeq(al_result.alerts,
              LAMBDA a : a.type # "info" /\ a.title[1] = name)

SignificantRanks ==
    {i \in 1..Len(al_input.top_cryptos) :
        LET c == al_input.top_cryptos[i].percent_change_24h
        IN  c.t = "num" /\ (c.v > 1000 \/ c.v < -1000)}

\* the rank of the item an item alert names
RankNamed(alert) ==
    CHOOSE i \in 1..Len(al_input.top_cryptos) :
        al_input.top_cryptos[i].name = alert.title[1]

\* C16: the list returned by generateMarketAlerts consists of the item
\* alerts in the order of the items in the snapshot, followed, always in
\* last position, by one info alert of priority medium exactly when
\* btc_dominance < 50 strictly; no global alert precedes an item alert.
C16_ItemAlertsThenGlobal ==
    al_pc = "done" =>
        LET alerts == al_result.alerts
            low == al_input.global.btc_dominance.v < 5000
            nItem == Cardinality(SignificantRanks)
        IN  /\ Len(alerts) = nItem + (IF low THEN 1 ELSE 0)
            /\ \A k \in 1..nItem : alerts[k].type # "info"
            /\ \A k, l \in 1..nItem :
                  k < l => RankNamed(alerts[k]) < RankNamed(alerts[l])
            /\ low => /\ alerts[Len(alerts)].type = "info"
                      /\ alerts[Len(alerts)].priority = "medium"

\* C16 witness: with BTC dominance below 50, a snapshot whose first and
\* third items moved significantly gave three alerts, the info alert last
C16_Witness ==
    /\ al_pc = "done"
    /\ al_input.global.btc_dominance = Num(4999)
    /\ SignificantRanks = {1, 3}
    /\ Len(al_result.alerts) = 3
    /\ al_result.alerts[1].title[1] = "Bitcoin"
    /\ al_result.alerts[2].title[1] = "Solana"
    /\ al_result.alerts[3].type = "info"

(***************************************************************************)
(* Claims about the report renderer.                                       *)
(***************************************************************************)

\* a rendered amount follows the policy for the amount num: suffix by
\* magnitude, and the hundredths shown are nearest to the quotient
MoneyCellFollowsPolicy(cell, num) ==
    /\ cell.prefix = "$"
    /\ IF num.m >= 1000000
       THEN /\ cell.suffix = "T"
            /\ cell.hundredths * 10000 - 5000 <= num.m
            /\ num.m <= cell.hundredths * 10000 + 5000
       ELSE IF num.m >= 1000
       THEN /\ cell.suffix = "B"
            /\ cell.hundredths * 10 - 5 <= num.m
            /\ num.m <= cell.hundredths * 10 + 5
       ELSE IF num.m >= 1
       THEN /\ cell.suffix = "M"
            /\ cell.hundredths * 10000 - 5000 <= num.m * 1000000 + num.u
            /\ num.m * 1000000 + num.u <= cell.hundredths * 10000 + 5000
       ELSE /\ cell.suffix = ""
            /\ (cell.hundredths - 100 * num.u) * 100 - 50 <= num.f
            /\ num.f <= (cell.hundredths - 100 * num.u) * 100 + 50

\* a rendered percentage carries an explicit sign ('+' for a value >= 0,
\* '-' for a negative one) and 2 decimals; v is the value in units of which
\* `per` make one hundredth of a percent
PercentCellFollowsPolicy(cell, v, per) ==
    /\ cell.suffix = "%"
    /\ cell.decimals = 2
    /\ IF v >= 0 THEN cell.sign = "+" /\ ~cell.number.minus
       ELSE cell.sign = "" /\ cell.number.minus
    /\ 2 * per * cell.number.digits - per <= 2 * (IF v < 0 THEN -v ELSE v)
    /\ 2 * (IF v < 0 THEN -v ELSE v) <= 2 * per * cell.number.digits + per

\* every amount and every change of the tables is rendered by the policy
TablesFollowPolicy ==
    LET overview == rp_input.data.market_overview
        pairs == rp_input.data.trading_summary.pairs
    IN  /\ MoneyCellFollowsPolicy(rp_result.total_market_cap,
                                  overview.global.total_market_cap)
        /\ MoneyCellFollowsPolicy(rp_result.total_volume_24h,
                                  overview.global.total_volume_24h)
        /\ \A i \in 1..Len(rp_result.top_cryptos) :
              LET row == rp_result.top_cryptos[i]
                  c == overview.top_cryptos[i]
              IN  /\ MoneyCellFollowsPolicy(row.price, c.price)
                  /\ MoneyCellFollowsPolicy(row.market_cap, c.market_cap)
                  /\ PercentCellFollowsPolicy(row.percent_change_24h,
                                              c.percent_change_24h.v, 10)
                  /\ PercentCellFollowsPolicy(row.percent_change_7d,
                                              c.percent_change_7d.v, 10)
        /\ \A i \in 1..Len(rp_result.pairs) :
              LET row == rp_result.pairs[i]
                  p == pairs[i]
              IN  /\ MoneyCellFollowsPolicy(row.price, p.price)
                  /\ MoneyCellFollowsPolicy(row.quoteVolume24h, p.quoteVolume24h)
                  /\ PercentCellFollowsPolicy(row.priceChangePercent24h,
                                              p.priceChangePercent24h.v, 10)

\* C17: in the Markdown report every monetary value is rendered with
\* suffix T from 10^12, B from 10^9, M from 10^6 and as plain currency
\* below, with 2 decimals, and every percentage (the changes of the tables
\* and the two dominances) is rendered with an explicit sign and 2
\* decimals.
C17_FormattingPolicy ==
    rp_pc = "rendered" =>
        /\ TablesFollowPolicy
        /\ PercentCellFollowsPolicy(rp_result.btc_dominance,
              rp_input.data.market_overview.global.btc_dominance.v, 1)
        /\ PercentCellFollowsPolicy(rp_result.eth_dominance,
              rp_input.data.market_overview.global.eth_dominance.v, 1)

\* the fields of the insight, of the global metrics and of the items that
\* rp_input lacks
MissingRequired ==
    LET ai == rp_input.data.ai_insights
        g == rp_input.data.market_overview.global
        cryptos == rp_input.data.market_overview.top_cryptos
    IN  \/ \E f \in {"summary", "sentiment", "recommendation", "confidence",
                     "key_points", "opportunities", "risks"} : ~Defined(ai[f])
        \/ \E f \in DOMAIN g : ~Defined(g[f])
        \/ \E i \in 1..Len(cryptos) : \E f \in DOMAIN cryptos[i] : ~Defined(cryptos[i][f])

\* C18: if a required field of the report is missing (the insight lacks
\* summary, sentiment, recommendation, confidence or a bullet list, the
\* snapshot lacks a global metric or an item field) rendering fails with an
\* error: no document is returned for such a report.
C18_MissingFieldFailsRendering ==
    rp_pc = "rendered" => ~MissingRequired

\* C19: the Markdown rendering of a report contains every numeric field of
\* its JSON rendering: each item's price, market cap, 24h volume and
\* changes, each trading pair's figures, the insight confidence and the
\* generation duration.
C19_MarkdownCarriesJsonNumbers ==
    rp_pc = "rendered" =>
        /\ Len(rp_result.top_cryptos) = Len(rp_input.data.market_overview.top_cryptos)
        /\ \A i \in 1..Len(rp_result.top_cryptos) :
              {"price", "market_cap", "volume_24h", "percent_change_24h",
               "percent_change_7d"} \subseteq DOMAIN rp_result.top_cryptos[i]
        /\ Len(rp_result.pairs) = Len(rp_input.data.trading_summary.pairs)
        /\ \A i \in 1..Len(rp_result.pairs) :
              {"price", "priceChange24h", "priceChangePercent24h", "high24h",
               "low24h", "volume24h", "quoteVolume24h"}
                  \subseteq DOMAIN rp_result.pairs[i]
        /\ {"confidence", "generation_duration_ms"} \subseteq DOMAIN rp_result

ErrorKinds ==
    {"crypto_fetch_failed", "Failed to fetch crypto market data",
     "Failed to fetch crypto trading data", "finance_fetch_failed",
     "api_key_not_configured", "domains_fetch_failed", "business_fetch_failed",
     "Failed to generate AI insights", "Failed to generate report"}

\* a response is a success payload
IsSuccessPayload(response) ==
    /\ response.status = 200
    /\ \/ response.contentType = "application/json" /\ response.body.ok = TRUE
       \/ response.contentType = "text/markdown" /\ ~response.body.threw

\* a response is a structured failure object: ok = false, an error kind
\* and a message that is a string
IsStructuredFailure(response) ==
    /\ response.status = 500
    /\ response.body.ok = FALSE
    /\ response.body.error \in ErrorKinds
    /\ response.body.message.t = "str"

\* C20: every route handler returns, for every request and for every
\* failure of a collaborator it calls, either a success payload or a
\* structured failure object with ok = false, an error kind and a message;
\* no exception leaves the handler: a handler is idle, suspended at an
\* await, or has responded.
C20_SuccessOrStructuredFailure ==
    /\ rt_pc \in {"idle", "awaiting", "responded"}
    /\ rt_pc = "responded" =>
          \/ IsSuccessPayload(rt_response)
          \/ IsStructuredFailure(rt_response)

\* C20 witness: at its second await the AI insights handler caught a thrown
\* value that is not an Error and answered with its failure object
C20_Witness ==
    /\ rt_pc = "responded"
    /\ rt_request.route = "ai_insights"
    /\ rt_stage = 2
    /\ rt_response.status = 500
    /\ rt_response.body.ok = FALSE
    /\ rt_response.body.message = Str("Unknown error")

\* C21: when ALPHAVANTAGE_API_KEY is not configured, the finance portfolio
\* endpoint returns the structured failure api_key_not_configured
\* (ok = false) and issues no provider request (it never calls
\* getFinancePortfolio, the only caller of the provider), whatever symbols
\* are requested; with the key configured it always proceeds to the chunked
\* fetch.
C21_MissingKeyStopsBeforeFetch ==
    (rt_pc # "idle" /\ rt_request.route = "finance_portfolio") =>
        IF rt_request.hasApiKey
        THEN /\ rt_calls = <<"getFinancePortfolio">>
             /\ rt_pc = "responded" =>
                   \/ rt_response.status = 200
                   \/ rt_response.body.error = "finance_fetch_failed"
        ELSE /\ rt_calls = <<>>
             /\ rt_pc = "responded"
             /\ rt_response.body.ok = FALSE
             /\ rt_response.body.error = "api_key_not_configured"
             /\ rt_response.body.message.t = "str"

\* C21 witness: a request naming a symbol was answered without the key
C21_Witness ==
    /\ rt_pc = "responded"
    /\ rt_request.route = "finance_portfolio"
    /\ ~rt_request.hasApiKey
    /\ rt_request.symbols = << <<"T", "S", "L", "A">> >>
    /\ rt_response.body.error = "api_key_not_configured"
    /\ rt_calls = <<>>

\* the handler's failure object and nothing else
IsBareFailure(response) ==
    /\ response.status = 500
    /\ DOMAIN response.body = {"ok", "error", "message"}
    /\ response.body.ok = FALSE

\* C29: in the report endpoint the insight producer is invoked only after
\* both the market overview and the trading summary have succeeded, and a
\* report (in either format) is returned only when all three have
\* succeeded; if the overview or the trading summary fails the insight
\* producer is never invoked, and if any of the three fails the response is
\* a structured failure carrying no report data.
C29_InsightsAfterBothThenReport ==
    (rt_pc # "idle" /\ rt_request.route = "reports_generate") =>
        /\ (\E k \in 1..Len(rt_calls) : rt_calls[k] = "generateMarketInsights") =>
              /\ Len(rt_values) >= 2
              /\ rt_values[1].from = "getCMCMarketOverview"
              /\ rt_values[2].from = "getCryptoTradingSummary"
        /\ (rt_pc = "responded" /\ rt_response.status = 200) =>
              Len(rt_values) = 3
        /\ (rt_pc = "responded" /\ Len(rt_values) < 3) =>
              IsBareFailure(rt_response)
        /\ (rt_pc = "responded" /\ Len(rt_values) = 0) =>
              rt_calls = <<"getCMCMarketOverview", "getCryptoTradingSummary">>
        /\ rt_pc = "responded" =>
              rt_response.status = 200 \/ IsBareFailure(rt_response)

\* C29 witness: the trading summary failed while the report in Markdown was
\* being prepared; the insight producer was not invoked
C29_Witness ==
    /\ rt_pc = "responded"
    /\ rt_request.route = "reports_generate"
    /\ rt_request.format = "markdown"
    /\ rt_stage = 1
    /\ rt_response.body.ok = FALSE
    /\ rt_response.body.message = Str("Binance API error: 429")
    /\ rt_calls = <<"getCMCMarketOverview", "getCryptoTradingSummary">>

(***************************************************************************)
(* Claims about the dashboard.                                             *)
(***************************************************************************)

\* refresh i has completed
Completed(i) == refreshes[i].stage \in {"succeeded", "failed"}

\* C30: in the dashboard's polling loop, once the most recently started
\* refresh has completed the displayed state is its outcome: its data and
\* no error if it succeeded, its error if it failed; the response of an
\* older refresh that arrives later never overwrites the data or the error
\* of a newer refresh; and market data and trading data always come from
\* the same refresh.
C30_NewestRefreshWins ==
    /\ (db_phase = "mounted" /\ Completed(Len(refreshes))) =>
          IF refreshes[Len(refreshes)].stage = "succeeded"
          THEN /\ db_marketData = MarketOf(Len(refreshes))
               /\ db_tradingData = TradingOf(Len(refreshes))
               /\ db_error = Null
          ELSE db_error = [message |-> refreshes[Len(refreshes)].message,
                        refresh |-> Len(refreshes)]
    /\ (db_marketData = Null) <=> (db_tradingData = Null)
    /\ db_marketData # Null => db_marketData.refresh = db_tradingData.refresh

\* before any call: getFinancePortfolio, the aggregators and the route
\* handlers have not been entered; the CoinMarketCap key is set or not
Init ==
    /\ fp_pc = "idle"
    /\ symbols = <<>>
    /\ chunks = <<>>
    /\ chunkIdx = 0
    /\ promises = <<>>
    /\ stocks = <<>>
    /\ errlog = <<>>
    /\ fp_currency = "usd"
    /\ settled = <<>>
    /\ fp_result = [none |-> TRUE]
    /\ requested = <<>>
    /\ delays = 0
    /\ overtaken = FALSE
    /\ CMC_API_KEY \in BOOLEAN
    /\ agg_pc = "idle"
    /\ agg_fn = "none"
    /\ agg_limit = 0
    /\ agg_currency = "USD"
    /\ sub = [listings |-> Pending, global |-> Pending]
    /\ settleOrder = <<>>
    /\ fetches = 0
    /\ agg_result = [none |-> TRUE]
    /\ agg_thrown = <<>>
    /\ eng_pc = "idle"
    /\ eng_query = [none |-> TRUE]
    /\ eng_result = [none |-> TRUE]
    /\ al_pc = "idle"
    /\ al_input = [none |-> TRUE]
    /\ al_result = [none |-> TRUE]
    /\ al_given = [none |-> TRUE]
    /\ al_kept = [none |-> TRUE]
    /\ rp_pc = "idle"
    /\ rp_input = [none |-> TRUE]
    /\ rp_result = [none |-> TRUE]
    /\ rt_pc = "idle"
    /\ rt_request = [none |-> TRUE]
    /\ rt_stage = 0
    /\ rt_values = <<>>
    /\ rt_response = [none |-> TRUE]
    /\ rt_calls = <<>>
    /\ db_phase = "initial"
    /\ refreshes = <<>>
    /\ db_marketData = [null |-> TRUE]
    /\ db_tradingData = [null |-> TRUE]
    /\ db_loading = TRUE
    /\ db_error = [null |-> TRUE]

\* the chunked fetcher alone
SpecPortfolio == Init /\ CMC_API_KEY = FALSE
                 /\ [][FPNext /\ UNCHANGED <<aggVars, engVars, alVars, rpVars, rtVars, dbVars>>]_vars

\* the chunked fetcher with its scheduling: a continuation that is ready
\* runs and a started timer fires; nothing makes a provider respond, and
\* getStockQuote passes fetch no signal and sets no timer (part_004:286-290)
SpecPortfolioLive == Init /\ CMC_API_KEY = FALSE
                     /\ [][FPNext /\ UNCHANGED <<aggVars, engVars, alVars, rpVars, rtVars, dbVars>>]_vars
                     /\ WF_fpVars(getFinancePortfolio_AllSettled)
                     /\ WF_fpVars(getFinancePortfolio_DelayElapsed)

\* the aggregators alone
SpecAggregator == Init
                  /\ [][AggNext /\ UNCHANGED <<fpVars, engVars, alVars, rpVars, rtVars, dbVars>>]_vars

\* the filter / rank engine behind its two routes
SpecEngine == Init /\ CMC_API_KEY = FALSE
              /\ [][EngNext /\ UNCHANGED <<fpVars, aggVars, alVars, rpVars, rtVars, dbVars>>]_vars

\* the two routes together with the sort step applied to candidate lists
\* of its own (the shipped candidates have pairwise different scores)
SpecRank == Init /\ CMC_API_KEY = FALSE
            /\ [][(EngNext \/ RankNext) /\ UNCHANGED <<fpVars, aggVars, alVars, rpVars, rtVars, dbVars>>]_vars

\* the alert engine alone
SpecAlerts == Init /\ CMC_API_KEY = FALSE
              /\ [][AlertNext /\ UNCHANGED <<fpVars, aggVars, engVars, rpVars, rtVars, dbVars>>]_vars

\* the alert engine called again and again
SpecAlertsRepeat == Init /\ CMC_API_KEY = FALSE
                    /\ [][AlertRepeatNext /\ UNCHANGED <<fpVars, aggVars, engVars, rpVars, rtVars, dbVars>>]_vars

\* the Markdown renderer alone
SpecReport == Init /\ CMC_API_KEY = FALSE
              /\ [][ReportNext /\ UNCHANGED <<fpVars, aggVars, engVars, alVars, rtVars, dbVars>>]_vars

\* the dashboard alone
SpecDashboard == Init /\ CMC_API_KEY = FALSE
                 /\ [][DashboardNext /\ UNCHANGED <<fpVars, aggVars, engVars, alVars, rpVars, rtVars>>]_vars

\* the route handlers alone
SpecRoutes == Init /\ CMC_API_KEY = FALSE
              /\ [][RouteNext /\ UNCHANGED <<fpVars, aggVars, engVars, alVars, rpVars, dbVars>>]_vars

====
